---- MODULE Spec2Model ----
(***************************************************************************)
(* Verification model of the Local Model Provider engine:                  *)
(*   - GatewayClient.fetchWithRetry and its two callers (SpecRetry),       *)
(*   - the SSE tool-call accumulator driven by                             *)
(*     provideLanguageModelChatResponse (SpecStream),                      *)
(*   - the JSON repair heuristic tryRepairJson (SpecRepair),               *)
(*   - truncateMessagesToFit, calculateSafeMaxOutputTokens and the request *)
(*     they size (SpecBudget),                                             *)
(*   - two chat requests on one provider and its tool schemas              *)
(*     (SpecOverlap),                                                      *)
(*   - provideLanguageModelChatInformation with the model list cache, the  *)
(*     credential headers and the log of one provider (SpecModels),        *)
(*   - the read loop of streamChatCompletion cutting the response body     *)
(*     into lines (SpecChunks),                                            *)
(*   - calculateBackoffDelay (SpecBackoff).                                *)
(* Optional values (statusCode?, lastError, tc.index) are sets with at     *)
(* most one element: {} is undefined/null.  Strings that the code scans    *)
(* character by character are sequences of one-character strings.          *)
(***************************************************************************)
EXTENDS Integers, Sequences, FiniteSets, TLC

VARIABLES
  \* ---- GatewayClient: fetchWithRetry, fetchModels, streamChatCompletion head
  retryConfig,   \* this.retryConfig (maxRetries)
  operation,     \* {} while idle, else {"Fetch models"} or {"Chat completion"}
  rpc,           \* position of the send: "idle", "fetch", "sleep", "done"
  attempt,       \* the loop variable of fetchWithRetry
  attempts,      \* number of this.fetch calls started (history)
  sleeps,        \* number of this.sleep calls started (history)
  lastError,     \* lastError of fetchWithRetry: {} or {message}
  outcomes,      \* what each attempt ended in, in order (history)
  fwr,           \* what fetchWithRetry produced: pending, response or throw
  callResult,    \* what the caller of fetchModels/streamChatCompletion sees
  token,         \* cancellationToken.isCancellationRequested
  \* ---- GatewayProvider.tryRepairJson
  jsonStr,        \* the argument string handed to tryRepairJson
  repairedAttempt, \* its local variable repaired ({} until a repair is tried)
  repairResult,  \* {} until the call returns, then {the value returned}
  \* ---- one provideLanguageModelChatResponse call and its streamChatCompletion
  spc,           \* "idle", "fetching", "reading", "done" (returned), "threw"
  state,         \* the ToolCallState of the response (see createToolCallState)
  yielded,       \* finished tool calls the generator has yielded (history)
  nread,         \* number of SSE lines read (history)
  lines,         \* what became of each line read, in order (history)
  readerCancelled, \* reader.cancel() was called
  currentToolSchemas, \* GatewayProvider.currentToolSchemas: tool name -> schema
  totalContent,  \* totalContent.length
  totalToolCalls,
  progress,      \* the parts given to progress.report, in order
  lateReports,   \* number of parts reported while the token was raised (history)
  \* ---- configuration: GatewayProvider.config, shared with GatewayClient.config
  config,        \* the GatewayConfig object in force
  startConfig,   \* {} until a send starts, then {config at that moment} (history)
  timeouts,      \* the requestTimeout each this.fetch armed its timer with (history)
  \* ---- ContextBudgeter: one call of a budgeting function
  budgetCall,    \* {} until called, then {[op, and the arguments]}
  budgetResult,  \* {} until it returned, then {the value returned}
  \* ---- overlapping chat requests on one provider
  requests,      \* per request: where it is, the tools it declared, what it reported
  \* ---- model list cache, credential and log of one GatewayProvider
  secret,        \* the API key in SecretStorage, <<>> where there is none
  clock,         \* Date.now()
  cachedModels,  \* this.cachedModels: {} for null, else {the list}
  modelCacheTimestamp,
  infoCalls,     \* the provideLanguageModelChatInformation calls, in order of start
  events,        \* number of calls started, fetches ended and changes (history)
  changedAt,     \* the values of events at the configuration changes (history)
  sent,          \* the headers of every HTTP request issued, in order (history)
  log,           \* the lines written to the output channel and the console
  \* ---- the read loop of streamChatCompletion over the response body
  cpc,           \* "idle", "reading" (in the loop), "done" (the loop was left)
  wire,          \* the bytes of the body the reader has not delivered yet
  chunksRead,    \* the chunks reader.read() delivered, in order (history)
  held,          \* the bytes the TextDecoder holds back (an unfinished character)
  buffer,        \* the local variable buffer
  processed,     \* the lines handed to processSSELine, in order (history)
  \* ---- one call of calculateBackoffDelay
  backoffCall,   \* {} until called, then {[attempt, random]}
  backoffDelay   \* {} until it returned, then {the delay, in 1/Scale ms}

retryVars == <<retryConfig, operation, rpc, attempt, attempts, sleeps, lastError,
               outcomes, fwr, callResult, config, startConfig, timeouts>>

\* retryVars without the configuration.
sendVars == <<retryConfig, operation, rpc, attempt, attempts, sleeps, lastError,
              outcomes, fwr, callResult, startConfig, timeouts>>

budgetVars == <<budgetCall, budgetResult>>

overlapVars == <<requests>>

modelVars == <<secret, clock, cachedModels, modelCacheTimestamp, infoCalls, events,
               changedAt, sent, log>>

repairVars == <<jsonStr, repairedAttempt, repairResult>>

chunkVars == <<cpc, wire, chunksRead, held, buffer, processed>>

backoffVars == <<backoffCall, backoffDelay>>

vars == <<retryConfig, operation, rpc, attempt, attempts, sleeps, lastError,
          outcomes, fwr, callResult, token, jsonStr, repairedAttempt, repairResult,
          spc, state, yielded, nread, lines, readerCancelled, currentToolSchemas,
          totalContent, totalToolCalls, progress, lateReports, config, startConfig,
          timeouts, budgetCall, budgetResult, requests, secret, clock, cachedModels,
          modelCacheTimestamp, infoCalls, events, changedAt, sent, log,
          cpc, wire, chunksRead, held, buffer, processed, backoffCall, backoffDelay>>

streamVars == <<spc, state, yielded, nread, lines, readerCancelled, currentToolSchemas,
                totalContent, totalToolCalls, progress, lateReports>>

\* ---------------------------------------------------------------- bounds
MaxRetriesBound == 2
\* Longest argument string enumerated character by character.
MaxStrLen == 2
\* Most SSE lines read in one response.
MaxRecords == 2
\* Longest conversation enumerated message by message.
MaxMessages == 4
\* Largest token budget truncateMessagesToFit is called with.
MaxBudget == 7
\* Most finished tool calls one of the overlapping requests receives.
MaxCallsPerRequest == 1
MaxClock == 2
MaxInfoCalls == 3
MaxChanges == 1

\* ------------------------------------------------------ RetryingTransport
RetryableStatusCodes == {429, 500, 502, 503, 504}

\* HTTP statuses the server may answer with.
Statuses == {200, 400, 404, 429, 503}

\* Messages of the errors this.fetch may reject with.
ErrorMessages == {"Request timeout", "read ECONNRESET", "This operation was aborted",
                  "fetch failed"}

Operations == {"Fetch models", "Chat completion"}

\* message.toLowerCase().includes(keyword)
LowerIncludes(message, keyword) ==
  keyword \in (CASE message = "Request timeout" -> {"timeout"}
                 [] message = "read ECONNRESET" -> {"econnreset"}
                 [] message = "connect ECONNREFUSED" -> {"econnrefused"}
                 [] message = "network error" -> {"network"}
                 [] message = "This operation was aborted" -> {"abort"}
                 [] OTHER -> {})

\* response.ok
Ok(status) == status >= 200 /\ status <= 299

isRetryableError_AllFailures(error, statusCode) ==
  \/ \E s \in statusCode : s >= 400
  \/ \E m \in error : \E k \in {"timeout", "econnreset", "econnrefused", "network", "abort"} :
       LowerIncludes(m, k)

\* error: {} for a value that is no Error, {message} for an Error;
\* statusCode: {} when the argument is omitted.
isRetryableError(error, statusCode) ==
  \/ \E s \in statusCode : s # 0 /\ s \in RetryableStatusCodes
  \/ \E m \in error :
       \/ LowerIncludes(m, "timeout")
       \/ LowerIncludes(m, "econnreset")
       \/ LowerIncludes(m, "econnrefused")
       \/ LowerIncludes(m, "network")
       \/ LowerIncludes(m, "abort")

RetriesLeft_OffByOne(a) == a <= retryConfig.maxRetries

\* attempt < this.retryConfig.maxRetries
RetriesLeft(a) == a < retryConfig.maxRetries

Pending == [kind |-> "pending", statusCode |-> {}, isRetryable |-> FALSE]

GatewayError(statusCode, retryable) ==
  [kind |-> "GatewayError", statusCode |-> statusCode, isRetryable |-> retryable]

ReturnResponse_RethrowLast(status, lastErr) ==
  IF lastErr # {} THEN GatewayError({}, FALSE)
  ELSE [kind |-> "response", statusCode |-> {status}, isRetryable |-> FALSE]

\* return response
ReturnResponse(status, lastErr) ==
  [kind |-> "response", statusCode |-> {status}, isRetryable |-> FALSE]

\* The callers' handling of what fetchWithRetry produced: a thrown GatewayError is
\* rethrown as it is, a response that is not ok becomes a GatewayError carrying
\* its status, an ok response lets the call proceed.
CallerSees(r) ==
  IF r.kind = "GatewayError" THEN r
  ELSE LET status == CHOOSE s \in r.statusCode : TRUE
       IN IF ~Ok(status)
          THEN GatewayError({status}, isRetryableError({}, {status}))
          ELSE [kind |-> "ok", statusCode |-> {status}, isRetryable |-> FALSE]

\* The for loop's test and the start of the next this.fetch, which arms its
\* timer with this.config.requestTimeout, or the throw after the loop.
LoopHead(a) ==
  IF a <= retryConfig.maxRetries
  THEN /\ attempts' = attempts + 1
       /\ timeouts' = Append(timeouts, config.requestTimeout)
       /\ rpc' = "fetch"
       /\ UNCHANGED <<fwr, callResult>>
  ELSE /\ fwr' = GatewayError({}, FALSE)
       /\ callResult' = CallerSees(fwr')
       /\ rpc' = "done"
       /\ UNCHANGED <<attempts, timeouts>>

\* The settings loadConfig reads.
Settings(requestTimeout, maxRetries, defaultMaxTokens, defaultMaxOutputTokens) ==
  [requestTimeout |-> requestTimeout, maxRetries |-> maxRetries,
   defaultMaxTokens |-> defaultMaxTokens,
   defaultMaxOutputTokens |-> defaultMaxOutputTokens,
   serverUrl |-> "http://localhost:8000", modelCacheTtlMs |-> 300000,
   logLevel |-> "info"]

\* loadConfig(): the GatewayConfig built from the settings, with its two
\* adjustments; apiKey is '' until initializeApiKey sets it.
loadConfig(settings) ==
  [serverUrl |-> settings.serverUrl,
   apiKey |-> <<>>,
   modelCacheTtlMs |-> settings.modelCacheTtlMs,
   logLevel |-> settings.logLevel,
   requestTimeout |-> IF settings.requestTimeout <= 0 THEN 60000
                      ELSE settings.requestTimeout,
   maxRetries |-> settings.maxRetries,
   defaultMaxTokens |-> settings.defaultMaxTokens,
   defaultMaxOutputTokens |->
     IF settings.defaultMaxOutputTokens >= settings.defaultMaxTokens
     THEN (IF settings.defaultMaxTokens - 256 > 64
           THEN settings.defaultMaxTokens - 256 ELSE 64)
     ELSE settings.defaultMaxOutputTokens]

\* The settings as installed, with the given number of retries.
DefaultSettings(maxRetries) == Settings(60000, maxRetries, 32768, 4096)

\* Settings a change of the retry and timeout settings may produce.
RetrySettings ==
  {Settings(requestTimeout, maxRetries, 32768, 4096) :
     requestTimeout \in {0, 30000}, maxRetries \in {0, 1}}

\* No send under way.
RetryIdle ==
  /\ operation = {}
  /\ rpc = "idle"
  /\ attempt = 0
  /\ attempts = 0
  /\ sleeps = 0
  /\ lastError = {}
  /\ outcomes = <<>>
  /\ fwr = Pending
  /\ callResult = Pending
  /\ token = FALSE
  /\ startConfig = {}
  /\ timeouts = <<>>

\* No chat request under way; currentToolSchemas is empty as constructed.
StreamIdle ==
  /\ spc = "idle"
  /\ state = [calls |-> <<>>, finalized |-> {}, counter |-> 0, received |-> <<>>,
              ids |-> <<>>, responseIds |-> {}, arrivals |-> <<>>]
  /\ yielded = <<>>
  /\ nread = 0
  /\ lines = <<>>
  /\ readerCancelled = FALSE
  /\ currentToolSchemas = <<>>
  /\ totalContent = 0
  /\ totalToolCalls = 0
  /\ progress = <<>>
  /\ lateReports = 0

\* No response body is being read.
ChunkIdle ==
  /\ cpc = "idle"
  /\ wire = <<>>
  /\ chunksRead = <<>>
  /\ held = <<>>
  /\ buffer = <<>>
  /\ processed = <<>>

\* No calculateBackoffDelay call under way.
BackoffIdle ==
  /\ backoffCall = {}
  /\ backoffDelay = {}

\* No tryRepairJson call under way.
RepairIdle ==
  /\ jsonStr = <<>>
  /\ repairedAttempt = {}
  /\ repairResult = {}

\* No budgeting call made.
BudgetIdle ==
  /\ budgetCall = {}
  /\ budgetResult = {}

\* No model list fetched, no key stored, nothing sent or logged.
ModelsIdle ==
  /\ secret = <<>>
  /\ clock = 0
  /\ cachedModels = {}
  /\ modelCacheTimestamp = 0
  /\ infoCalls = <<>>
  /\ events = 0
  /\ changedAt = {}
  /\ sent = <<>>
  /\ log = {}

\* The requests of the overlap scenario, none of them started.
RequestIds == {1, 2}

OverlapIdle ==
  requests = [r \in RequestIds |-> [pc |-> "idle", tools |-> <<>>, reported |-> <<>>]]

\* The GatewayProvider constructor: loadConfig, then the client with
\* { maxRetries: config.maxRetries, ... }.
RetryInit ==
  /\ retryConfig \in [maxRetries : 0..MaxRetriesBound]
  /\ config = loadConfig(DefaultSettings(retryConfig.maxRetries))
  /\ RetryIdle
  /\ RepairIdle
  /\ StreamIdle
  /\ BudgetIdle
  /\ OverlapIdle
  /\ ModelsIdle
  /\ ChunkIdle
  /\ BackoffIdle

\* fetchModels() or the first next() of streamChatCompletion(): fetchWithRetry
\* starts its loop.
Send(o) ==
  /\ rpc = "idle"
  /\ operation' = {o}
  /\ attempt' = 0
  /\ startConfig' = {config}
  /\ LoopHead(0)
  /\ UNCHANGED <<retryConfig, config, sleeps, lastError, outcomes, token, repairVars, streamVars, budgetVars, overlapVars, modelVars, chunkVars, backoffVars>>

\* this.fetch resolved with a response of the given status.
AttemptResponds(status) ==
  /\ rpc = "fetch"
  /\ outcomes' = Append(outcomes, [status |-> {status}, error |-> {}])
  /\ IF ~Ok(status) /\ isRetryableError({}, {status}) /\ RetriesLeft(attempt)
     THEN /\ sleeps' = sleeps + 1
          /\ rpc' = "sleep"
          /\ UNCHANGED <<fwr, callResult>>
     ELSE /\ fwr' = ReturnResponse(status, lastError)
          /\ callResult' = CallerSees(fwr')
          /\ rpc' = "done"
          /\ UNCHANGED sleeps
  /\ UNCHANGED <<retryConfig, config, startConfig, timeouts, operation, attempt, attempts,
                 lastError, token, repairVars, streamVars, budgetVars, overlapVars, modelVars, chunkVars, backoffVars>>

\* this.fetch rejected (timeout abort, connection failure, ...).
AttemptThrows(message) ==
  /\ rpc = "fetch"
  /\ outcomes' = Append(outcomes, [status |-> {}, error |-> {message}])
  /\ lastError' = {message}
  /\ IF isRetryableError({message}, {}) /\ RetriesLeft(attempt)
     THEN /\ sleeps' = sleeps + 1
          /\ rpc' = "sleep"
          /\ UNCHANGED <<fwr, callResult>>
     ELSE /\ fwr' = GatewayError({}, FALSE)
          /\ callResult' = CallerSees(fwr')
          /\ rpc' = "done"
          /\ UNCHANGED sleeps
  /\ UNCHANGED <<retryConfig, config, startConfig, timeouts, operation, attempt, attempts,
                 token, repairVars, streamVars, budgetVars, overlapVars, modelVars, chunkVars, backoffVars>>

\* The backoff sleep ended: continue with attempt + 1.
SleepDone ==
  /\ rpc = "sleep"
  /\ attempt' = attempt + 1
  /\ LoopHead(attempt + 1)
  /\ UNCHANGED <<retryConfig, config, startConfig, operation, sleeps, lastError, outcomes, token, repairVars, streamVars, budgetVars, overlapVars, modelVars, chunkVars, backoffVars>>

\* The caller raises its cancellation token while the send is in progress.
CancelDuringSend ==
  /\ operation = {"Chat completion"}
  /\ rpc \in {"fetch", "sleep"}
  /\ ~token
  /\ token' = TRUE
  /\ UNCHANGED <<retryConfig, config, startConfig, timeouts, operation, rpc, attempt,
                 attempts, sleeps, lastError, outcomes, fwr, callResult, repairVars, streamVars, budgetVars, overlapVars, modelVars, chunkVars, backoffVars>>

\* onDidChangeConfiguration: reloadConfig() replaces the provider's config and
\* hands the new object to client.updateConfig, which replaces client.config.
\* The settings may change before the send and at any moment until it ends.
reloadConfig(settings) ==
  /\ rpc # "done"
  /\ config' = loadConfig(settings)
  /\ config' # config
  /\ UNCHANGED <<retryConfig, startConfig, timeouts, operation, rpc, attempt, attempts,
                 sleeps, lastError, outcomes, fwr, callResult, token, repairVars,
                 streamVars, budgetVars, overlapVars, modelVars, chunkVars, backoffVars>>

RetryNext ==
  \/ \E o \in Operations : Send(o)
  \/ \E s \in Statuses : AttemptResponds(s)
  \/ \E m \in ErrorMessages : AttemptThrows(m)
  \/ SleepDone
  \/ CancelDuringSend
  \/ \E settings \in RetrySettings : reloadConfig(settings)

SpecRetry == RetryInit /\ [][RetryNext]_vars

\* ------------------------------------------------------------ JsonRepairer
\* JSON values: [t |-> kind, v |-> payload]; an object's payload is a function
\* from keys to values, an array's a sequence of values, a string's and a
\* number's the characters.
JNull == [t |-> "null", v |-> <<>>]
JObj(f) == [t |-> "object", v |-> f]
JArr(q) == [t |-> "array", v |-> q]
JStr(q) == [t |-> "string", v |-> q]
JNum(q) == [t |-> "number", v |-> q]
JBool(q) == [t |-> "boolean", v |-> q]

Digits == {"0", "1", "2", "3", "4", "5", "6", "7", "8", "9"}

IsSpace(c) == c = " "

Rep(c, n) == [i \in 1..n |-> c]

RECURSIVE SkipSpace(_, _)
\* The first position from i on that holds no white space (Len(s) + 1 if none).
SkipSpace(s, i) ==
  IF i <= Len(s) /\ IsSpace(s[i]) THEN SkipSpace(s, i + 1) ELSE i

RECURSIVE SkipSpaceBack(_, _)
SkipSpaceBack(s, i) ==
  IF i >= 1 /\ IsSpace(s[i]) THEN SkipSpaceBack(s, i - 1) ELSE i

\* String.prototype.trim
Trim(s) == SubSeq(s, SkipSpace(s, 1), SkipSpaceBack(s, Len(s)))

RECURSIVE FindQuote(_, _)
\* The position of the first double quote from i on (Len(s) + 1 if none).
FindQuote(s, i) ==
  IF i <= Len(s) /\ s[i] # "\"" THEN FindQuote(s, i + 1) ELSE i

RECURSIVE DigitsEnd(_, _)
DigitsEnd(s, i) ==
  IF i <= Len(s) /\ s[i] \in Digits THEN DigitsEnd(s, i + 1) ELSE i

HasAt(s, i, word) ==
  /\ i + Len(word) - 1 <= Len(s)
  /\ SubSeq(s, i, i + Len(word) - 1) = word

Fail == [ok |-> FALSE, val |-> JNull, pos |-> 0]
Got(val, pos) == [ok |-> TRUE, val |-> val, pos |-> pos]

RECURSIVE ParseValue(_, _)
RECURSIVE ParseMembers(_, _, _)
RECURSIVE ParseElements(_, _, _)

\* The members of an object from position i (a key is expected there); acc holds
\* the members read so far, a repeated key keeps its last value.
ParseMembers(s, i, acc) ==
  IF i > Len(s) \/ s[i] # "\"" THEN Fail
  ELSE LET q == FindQuote(s, i + 1)
           key == SubSeq(s, i + 1, q - 1)
           c == SkipSpace(s, q + 1)
       IN IF q > Len(s) \/ c > Len(s) \/ s[c] # ":" THEN Fail
          ELSE LET r == ParseValue(s, c + 1)
                   e == SkipSpace(s, r.pos)
                   acc2 == [k \in (DOMAIN acc) \cup {key} |->
                              IF k = key THEN r.val ELSE acc[k]]
               IN IF ~r.ok \/ e > Len(s) THEN Fail
                  ELSE IF s[e] = "}" THEN Got(JObj(acc2), e + 1)
                  ELSE IF s[e] = "," THEN ParseMembers(s, SkipSpace(s, e + 1), acc2)
                  ELSE Fail

\* The elements of an array from position i; acc holds the elements read so far.
ParseElements(s, i, acc) ==
  LET r == ParseValue(s, i)
      e == SkipSpace(s, r.pos)
  IN IF ~r.ok \/ e > Len(s) THEN Fail
     ELSE IF s[e] = "]" THEN Got(JArr(Append(acc, r.val)), e + 1)
     ELSE IF s[e] = "," THEN ParseElements(s, e + 1, Append(acc, r.val))
     ELSE Fail

\* One JSON value starting at the first non-space position from i on.
ParseValue(s, i) ==
  LET b == SkipSpace(s, i)
  IN IF b > Len(s) THEN Fail
     ELSE IF s[b] = "{" THEN
            LET m == SkipSpace(s, b + 1)
            IN IF m <= Len(s) /\ s[m] = "}" THEN Got(JObj(<<>>), m + 1)
               ELSE ParseMembers(s, m, <<>>)
     ELSE IF s[b] = "[" THEN
            LET m == SkipSpace(s, b + 1)
            IN IF m <= Len(s) /\ s[m] = "]" THEN Got(JArr(<<>>), m + 1)
               ELSE ParseElements(s, m, <<>>)
     ELSE IF s[b] = "\"" THEN
            LET q == FindQuote(s, b + 1)
            IN IF q > Len(s) THEN Fail ELSE Got(JStr(SubSeq(s, b + 1, q - 1)), q + 1)
     ELSE IF s[b] \in Digits THEN
            LET e == DigitsEnd(s, b)
            IN IF s[b] = "0" /\ e > b + 1 THEN Fail
               ELSE Got(JNum(SubSeq(s, b, e - 1)), e)
     ELSE IF HasAt(s, b, <<"n", "u", "l", "l">>) THEN Got(JNull, b + 4)
     ELSE IF HasAt(s, b, <<"t", "r", "u", "e">>) THEN Got(JBool(<<"true">>), b + 4)
     ELSE Fail

\* The whole text must be one value: nothing but white space may follow it.
WholeText(s, r) ==
  IF r.ok /\ SkipSpace(s, r.pos) = Len(s) + 1 THEN r ELSE Fail

\* JSON.parse: ok is FALSE where JSON.parse throws.
JSONparse(s) == WholeText(s, ParseValue(s, 1))

\* countChar(str, char)
countChar(str, char) == Cardinality({i \in DOMAIN str : str[i] = char})

Max(a, b) == IF a >= b THEN a ELSE b

balanceBrackets_BracesFirst(str) ==
  LET missingBrackets == countChar(str, "[") - countChar(str, "]")
      missingBraces == countChar(str, "{") - countChar(str, "}")
  IN str \o Rep("}", Max(0, missingBraces)) \o Rep("]", Max(0, missingBrackets))

\* balanceBrackets(str)
balanceBrackets(str) ==
  LET missingBrackets == countChar(str, "[") - countChar(str, "]")
      missingBraces == countChar(str, "{") - countChar(str, "}")
  IN str \o Rep("]", Max(0, missingBrackets)) \o Rep("}", Max(0, missingBraces))

RECURSIVE StripTrailingCommas(_, _)
\* repaired.replaceAll(/,\s*([}\]])/g, '$1'), scanning from position i.
StripTrailingCommas(s, i) ==
  IF i > Len(s) THEN <<>>
  ELSE LET j == SkipSpace(s, i + 1)
       IN IF s[i] = "," /\ j <= Len(s) /\ s[j] \in {"}", "]"}
          THEN <<s[j]>> \o StripTrailingCommas(s, j + 1)
          ELSE <<s[i]>> \o StripTrailingCommas(s, i + 1)

\* The local variable repaired of tryRepairJson when the second parse is tried.
RepairedString(raw) ==
  LET balanced == balanceBrackets(Trim(raw))
      stripped == StripTrailingCommas(balanced, 1)
  IN IF countChar(stripped, "\"") % 2 # 0
     THEN balanceBrackets(stripped \o <<"\"">>)
     ELSE stripped

\* The second try of tryRepairJson: the parsed repair, or null.
SecondParse(r) == IF r.ok THEN r.val ELSE JNull

\* The first try of tryRepairJson: the direct parse, else the repair.
FirstParse(raw, r) ==
  IF r.ok THEN r.val ELSE SecondParse(JSONparse(RepairedString(raw)))

\* tryRepairJson(jsonStr): the value returned; a failed repair returns null.
tryRepairJson(raw) ==
  IF Len(raw) = 0 \/ Len(Trim(raw)) = 0 THEN JObj(<<>>)
  ELSE FirstParse(raw, JSONparse(raw))

\* Argument strings of the examples: {"a": "hi"} and {"a": [1, 2, 1]} and
\* [{"a": 1}, "b"], of which every prefix is tried.
DocString == <<"{", "\"", "a", "\"", ":", " ", "\"", "h", "i", "\"", "}">>
DocArray == <<"{", "\"", "a", "\"", ":", " ", "[", "1", ",", " ", "2", ",", " ", "1",
              "]", "}">>
DocNested == <<"[", "{", "\"", "a", "\"", ":", " ", "1", "}", ",", " ", "\"", "b",
               "\"", "]">>

Prefixes(d) == {SubSeq(d, 1, n) : n \in 0..Len(d)}

Alphabet == {"{", "}", "[", "]", "\"", ",", ":", " ", "1", "a"}

\* The argument strings tryRepairJson is applied to.
RepairInputs ==
  Prefixes(DocString) \cup Prefixes(DocArray) \cup Prefixes(DocNested)
    \cup UNION {[1..n -> Alphabet] : n \in 0..MaxStrLen}

RepairInit ==
  /\ retryConfig = [maxRetries |-> 0]
  /\ config = loadConfig(DefaultSettings(0))
  /\ BudgetIdle
  /\ OverlapIdle
  /\ ModelsIdle
  /\ ChunkIdle
  /\ BackoffIdle
  /\ RetryIdle
  /\ StreamIdle
  /\ jsonStr \in RepairInputs
  /\ repairedAttempt = {}
  /\ repairResult = {}

\* One call of tryRepairJson(jsonStr).
TryRepair ==
  /\ repairResult = {}
  /\ repairResult' = {tryRepairJson(jsonStr)}
  /\ repairedAttempt' =
       IF Len(Trim(jsonStr)) = 0 \/ JSONparse(jsonStr).ok THEN {}
       ELSE {RepairedString(jsonStr)}
  /\ UNCHANGED <<jsonStr, retryVars, token, streamVars, budgetVars, overlapVars, modelVars, chunkVars, backoffVars>>

RepairNext == TryRepair

SpecRepair == RepairInit /\ [][RepairNext]_vars

\* ------------------------------------------------------ ToolCallAccumulator
\* The ToolCallState of one response is the record
\*   [calls, finalized, counter, received, ids, responseIds, arrivals]:
\* calls is toolCallsByIndex as the sequence of its entries in insertion order
\* (the order a Map iterates in), each [index, id, name, arguments]; finalized is
\* finalizedIndices; counter is toolCallCounter.  received is history: for every
\* index, the argument text received for it so far, in arrival order.  ids is
\* history too: for every index, the tool-call identifiers (tc.id) the server
\* sent for it; responseIds holds the response identifiers (parsed.id) that came
\* with a function_call.  arrivals is history as well: for every tool_calls
\* fragment of a delta, in arrival order, the index it was filed under and
\* whether the fragment carried that index itself (explicit).
RequestId == "req"

\* `call_${state.requestId}_${index}`
DefaultCallId(index) == "call_" \o RequestId \o "_" \o ToString(index)

createToolCallState ==
  [calls |-> <<>>, finalized |-> {}, counter |-> 0, received |-> <<>>,
   ids |-> <<>>, responseIds |-> {}, arrivals |-> <<>>]

\* The history of argument text per index, with one more piece appended.
Receive(received, index, piece) ==
  [i \in (DOMAIN received) \cup {index} |->
     IF i = index
     THEN (IF i \in DOMAIN received THEN received[i] ELSE <<>>) \o piece
     ELSE received[i]]

\* The history of identifiers per index, with id added where it is not empty.
ReceiveId(ids, index, id) ==
  [i \in (DOMAIN ids) \cup {index} |->
     (IF i \in DOMAIN ids THEN ids[i] ELSE {})
       \cup (IF i = index /\ id # "" THEN {id} ELSE {})]

PositionsOf(calls, index) == {p \in DOMAIN calls : calls[p].index = index}

processToolCallDelta_Replace(tc, st) ==
  LET index == IF tc.index = {} THEN st.counter ELSE CHOOSE i \in tc.index : TRUE
      at == PositionsOf(st.calls, index)
      New == [index |-> index, id |-> tc.id, name |-> tc.name,
              arguments |-> tc.arguments]
  IN [st EXCEPT
        !.counter = IF tc.index = {} THEN st.counter + 1 ELSE st.counter,
        !.received = Receive(st.received, index, tc.arguments),
        !.ids = ReceiveId(st.ids, index, tc.id),
        !.arrivals = Append(st.arrivals, [index |-> index, explicit |-> tc.index # {}]),
        !.calls = IF at # {}
                  THEN [p \in DOMAIN st.calls |-> IF p \in at THEN New ELSE st.calls[p]]
                  ELSE Append(st.calls, New)]

processToolCallDelta_NoCount(tc, st) ==
  LET index == IF tc.index = {} THEN st.counter ELSE CHOOSE i \in tc.index : TRUE
      at == PositionsOf(st.calls, index)
      Update(e) == [e EXCEPT
                      !.id = IF tc.id # "" THEN tc.id ELSE e.id,
                      !.name = IF tc.name # "" THEN tc.name ELSE e.name,
                      !.arguments = e.arguments \o tc.arguments]
  IN [st EXCEPT
        !.received = Receive(st.received, index, tc.arguments),
        !.ids = ReceiveId(st.ids, index, tc.id),
        !.arrivals = Append(st.arrivals, [index |-> index, explicit |-> tc.index # {}]),
        !.calls = IF at # {}
                  THEN [p \in DOMAIN st.calls |->
                          IF p \in at THEN Update(st.calls[p]) ELSE st.calls[p]]
                  ELSE Append(st.calls,
                              [index |-> index, id |-> tc.id, name |-> tc.name,
                               arguments |-> tc.arguments])]

\* processToolCallDelta(tc, state)
processToolCallDelta(tc, st) ==
  LET index == IF tc.index = {} THEN st.counter ELSE CHOOSE i \in tc.index : TRUE
      at == PositionsOf(st.calls, index)
      Update(e) == [e EXCEPT
                      !.id = IF tc.id # "" THEN tc.id ELSE e.id,
                      !.name = IF tc.name # "" THEN tc.name ELSE e.name,
                      !.arguments = e.arguments \o tc.arguments]
  IN [st EXCEPT
        !.counter = IF tc.index = {} THEN st.counter + 1 ELSE st.counter,
        !.received = Receive(st.received, index, tc.arguments),
        !.ids = ReceiveId(st.ids, index, tc.id),
        !.arrivals = Append(st.arrivals, [index |-> index, explicit |-> tc.index # {}]),
        !.calls = IF at # {}
                  THEN [p \in DOMAIN st.calls |->
                          IF p \in at THEN Update(st.calls[p]) ELSE st.calls[p]]
                  ELSE Append(st.calls,
                              [index |-> index, id |-> tc.id, name |-> tc.name,
                               arguments |-> tc.arguments])]

RECURSIVE ProcessToolCallDeltas(_, _)
\* for (const tc of delta.tool_calls) this.processToolCallDelta(tc, state)
ProcessToolCallDeltas(tcs, st) ==
  IF tcs = <<>> THEN st
  ELSE ProcessToolCallDeltas(Tail(tcs), processToolCallDelta(Head(tcs), st))

\* processLegacyFunctionCall(functionCall, parsedId, state)
processLegacyFunctionCall(fc, parsedId, st) ==
  LET at == PositionsOf(st.calls, 0)
      Update(e) == [e EXCEPT
                      !.name = IF fc.name # "" THEN fc.name ELSE e.name,
                      !.arguments = e.arguments \o fc.arguments]
  IN [st EXCEPT
        !.received = Receive(st.received, 0, fc.arguments),
        !.ids = ReceiveId(st.ids, 0, ""),
        !.responseIds = st.responseIds \cup (IF parsedId # "" THEN {parsedId} ELSE {}),
        !.calls = IF at # {}
                  THEN [p \in DOMAIN st.calls |->
                          IF p \in at THEN Update(st.calls[p]) ELSE st.calls[p]]
                  ELSE Append(st.calls,
                              [index |-> 0, id |-> parsedId, name |-> fc.name,
                               arguments |-> fc.arguments])]

WithId_KeepEmpty(e) == e

\* tc.id = `call_...` where the entry has no id yet
WithId(e) == IF e.id = "" THEN [e EXCEPT !.id = DefaultCallId(e.index)] ELSE e

\* A finished call as the accumulator hands it on, tagged with how it was
\* finalized and with the argument text its index had received by then.
Finished(e, via, st) ==
  [index |-> e.index, id |-> e.id, name |-> e.name, arguments |-> e.arguments,
   via |-> via, received |-> st.received[e.index], ids |-> st.ids[e.index],
   responseIds |-> st.responseIds]

\* An operation's outcome: the new state and the finished calls it produced.
Out(st, finished) == [st |-> st, finished |-> finished]

finalizeToolCalls_NoGuard(st) ==
  LET withIds == [p \in DOMAIN st.calls |-> WithId(st.calls[p])]
  IN Out([st EXCEPT !.calls = withIds,
                    !.finalized = st.finalized \cup {e.index : e \in {st.calls[p] : p \in DOMAIN st.calls}}],
         [p \in DOMAIN withIds |-> Finished(withIds[p], "finish", st)])

\* finalizeToolCalls(state)
finalizeToolCalls(st) ==
  LET Due(e) == e.index \notin st.finalized
      withIds == [p \in DOMAIN st.calls |->
                    IF Due(st.calls[p]) THEN WithId(st.calls[p]) ELSE st.calls[p]]
      due == SelectSeq(withIds, Due)
  IN Out([st EXCEPT !.calls = withIds,
                    !.finalized = st.finalized \cup {due[p].index : p \in DOMAIN due}],
         [p \in DOMAIN due |-> Finished(due[p], "finish", st)])

getRemainingToolCalls_Nothing(st) == Out(st, <<>>)

\* getRemainingToolCalls(state)
getRemainingToolCalls(st) ==
  LET Due(e) == e.index \notin st.finalized /\ (e.name # "" \/ e.arguments # <<>>)
      withIds == [p \in DOMAIN st.calls |->
                    IF Due(st.calls[p]) THEN WithId(st.calls[p]) ELSE st.calls[p]]
      due == SelectSeq(withIds, Due)
  IN Out([st EXCEPT !.calls = withIds,
                    !.finalized = st.finalized \cup {due[p].index : p \in DOMAIN due}],
         [p \in DOMAIN due |-> Finished(due[p], "drain", st)])

\* processDeltaFormat(parsed, state)
processDeltaFormat(parsed, st) ==
  LET st1 == ProcessToolCallDeltas(parsed.tool_calls, st)
      st2 == IF parsed.function_call # {}
             THEN processLegacyFunctionCall(CHOOSE fc \in parsed.function_call : TRUE,
                                            parsed.id, st1)
             ELSE st1
  IN IF parsed.finishReason \in {"tool_calls", "function_call"}
     THEN finalizeToolCalls(st2)
     ELSE Out(st2, <<>>)

RECURSIVE MessageToolCalls(_, _, _, _)
\* The loop of processMessageFormat over message.tool_calls from element i
\* (0-based) on; done holds the calls finished so far.
MessageToolCalls(tcs, i, st, done) ==
  IF i >= Len(tcs) THEN Out(st, done)
  ELSE LET tc == tcs[i + 1]
           index == IF tc.index = {} THEN i ELSE CHOOSE x \in tc.index : TRUE
           st1 == [st EXCEPT !.received = Receive(st.received, index, tc.arguments),
                             !.ids = ReceiveId(st.ids, index, tc.id)]
       IN IF index \notin st.finalized
          THEN MessageToolCalls(tcs, i + 1,
                 [st1 EXCEPT !.finalized = st.finalized \cup {index}],
                 Append(done,
                        [index |-> index,
                         id |-> IF tc.id # "" THEN tc.id ELSE DefaultCallId(index),
                         name |-> tc.name, arguments |-> tc.arguments,
                         via |-> "message", received |-> st1.received[index],
                         ids |-> st1.ids[index], responseIds |-> st1.responseIds]))
          ELSE MessageToolCalls(tcs, i + 1, st1, done)

\* processMessageFormat(parsed, state)
processMessageFormat(parsed, st) ==
  LET a == MessageToolCalls(parsed.tool_calls, 0, st, <<>>)
  IN IF parsed.function_call # {}
     THEN LET fc == CHOOSE f \in parsed.function_call : TRUE
              st1 == [a.st EXCEPT
                        !.received = Receive(a.st.received, 0, fc.arguments),
                        !.ids = ReceiveId(a.st.ids, 0, ""),
                        !.responseIds = a.st.responseIds
                                          \cup (IF parsed.id # "" THEN {parsed.id} ELSE {})]
          IN IF 0 \notin a.st.finalized
             THEN Out([st1 EXCEPT !.finalized = a.st.finalized \cup {0}],
                      Append(a.finished,
                             [index |-> 0,
                              id |-> IF parsed.id # "" THEN parsed.id ELSE DefaultCallId(0),
                              name |-> fc.name, arguments |-> fc.arguments,
                              via |-> "message", received |-> st1.received[0],
                              ids |-> st1.ids[0], responseIds |-> st1.responseIds]))
             ELSE Out(st1, a.finished)
     ELSE a

\* An SSE line is [text, parsed]: text is the line as the read loop split it
\* off (a JSON payload stands as the text "{}"), parsed is what JSON.parse makes
\* of the payload: {} where it throws, else {the chunk} (see Parsed).
DataPrefix == <<"d", "a", "t", "a", ":", " ">>

DoneLine == DataPrefix \o <<"[", "D", "O", "N", "E", "]">>

\* parseSSEData(data): null ({}) where JSON.parse throws.
parseSSEData(line) == line.parsed

\* What processSSELine returns where it returns null.
NoRecord(line, st) ==
  [yields |-> FALSE, content |-> <<>>, out |-> Out(st, <<>>), line |-> line]

processSSELine_NoPrefixTest(line, st) ==
  LET trimmed == Trim(line.text)
  IN IF trimmed = <<>> \/ trimmed = DoneLine THEN NoRecord(line, st)
     ELSE IF parseSSEData(line) = {} THEN NoRecord(line, st)
     ELSE LET parsed == CHOOSE p \in parseSSEData(line) : TRUE
          IN IF parsed.shape = "delta"
             THEN [yields |-> TRUE, content |-> parsed.content,
                   out |-> processDeltaFormat(parsed, st), line |-> line]
             ELSE IF parsed.shape = "message"
             THEN [yields |-> TRUE, content |-> parsed.content,
                   out |-> processMessageFormat(parsed, st), line |-> line]
             ELSE NoRecord(line, st)

\* processSSELine(line, state): yields is FALSE where it returns null.
processSSELine(line, st) ==
  LET trimmed == Trim(line.text)
  IN IF trimmed = <<>> \/ trimmed = DoneLine THEN NoRecord(line, st)
     ELSE IF ~HasAt(trimmed, 1, DataPrefix) THEN NoRecord(line, st)
     ELSE IF parseSSEData(line) = {} THEN NoRecord(line, st)
     ELSE LET parsed == CHOOSE p \in parseSSEData(line) : TRUE
          IN IF parsed.shape = "delta"
             THEN [yields |-> TRUE, content |-> parsed.content,
                   out |-> processDeltaFormat(parsed, st), line |-> line]
             ELSE IF parsed.shape = "message"
             THEN [yields |-> TRUE, content |-> parsed.content,
                   out |-> processMessageFormat(parsed, st), line |-> line]
             ELSE NoRecord(line, st)

\* --------------------------------------------- tool schemas and tool parts
Range(q) == {q[i] : i \in DOMAIN q}

\* getDefaultForType(schema): schema is {} where the property has no schema.
getDefaultForType(schema) ==
  IF schema = {} THEN JNull
  ELSE LET sch == CHOOSE x \in schema : TRUE
       IN IF sch.default # {} /\ sch.type \in {"string", "number", "integer", "boolean",
                                                "array", "object"}
          THEN CHOOSE d \in sch.default : TRUE
          ELSE CASE sch.type = "string" -> JStr(<<>>)
                 [] sch.type \in {"number", "integer"} -> JNum(<<"0">>)
                 [] sch.type = "boolean" -> JBool(<<"false">>)
                 [] sch.type = "array" -> JArr(<<>>)
                 [] sch.type = "object" -> JObj(<<>>)
                 [] OTHER -> JNull

\* { ...args }: the own enumerable properties of the value.
Spread(val) ==
  CASE val.t = "object" -> val.v
    [] val.t = "array" -> [k \in {<<ToString(i - 1)>> : i \in DOMAIN val.v} |->
                             val.v[CHOOSE i \in DOMAIN val.v : <<ToString(i - 1)>> = k]]
    [] val.t = "string" -> [k \in {<<ToString(i - 1)>> : i \in DOMAIN val.v} |->
                              JStr(<<val.v[CHOOSE i \in DOMAIN val.v : <<ToString(i - 1)>> = k]>>)]
    [] OTHER -> <<>>

\* fillMissingRequiredProperties(args, toolName, toolSchema)
fillMissingRequiredProperties(args, toolSchema) ==
  IF toolSchema.required = {} THEN args
  ELSE LET required == CHOOSE r \in toolSchema.required : TRUE
           base == Spread(args)
       IN JObj([k \in (DOMAIN base) \cup Range(required) |->
                  IF k \in DOMAIN base THEN base[k]
                  ELSE getDefaultForType(IF k \in DOMAIN toolSchema.properties
                                           THEN {toolSchema.properties[k]} ELSE {})])

\* The schema of the tool the requests declare: one required string property.
SchemaF ==
  [required |-> {<<(<<"p">>)>>},
   properties |-> (<<"p">> :> [type |-> "string", default |-> {}])]

\* options.tools of a request: none, or the tool f.
ToolLists == {<<>>, <<[name |-> "f", inputSchema |-> {SchemaF}]>>}

\* buildToolsConfig(options): the contents of currentToolSchemas afterwards
\* (tool calling enabled).
buildToolsConfig(tools, schemas) ==
  IF tools = <<>> THEN schemas
  ELSE [n \in {tools[i].name : i \in DOMAIN tools} |->
          tools[CHOOSE i \in DOMAIN tools : tools[i].name = n /\
                  \A j \in DOMAIN tools : tools[j].name = n => j <= i].inputSchema]

TextPart(text) ==
  [kind |-> "text", text |-> text, callId |-> "", name |-> "", input |-> JNull]

\* The text handleEmptyResponse reports.
Diagnostic == <<"I was unable to generate a response.">>

ToolCallPart_NullArgs(toolCall, schemas, parsed) ==
  LET toolSchema == IF toolCall.name \in DOMAIN schemas THEN schemas[toolCall.name] ELSE {}
  IN [kind |-> "tool", text |-> <<>>, callId |-> toolCall.id, name |-> toolCall.name,
      input |-> IF toolSchema # {}
                THEN fillMissingRequiredProperties(parsed, CHOOSE x \in toolSchema : TRUE)
                ELSE parsed]

\* The part processToolCall reports, given what tryRepairJson returned.
ToolCallPart(toolCall, schemas, parsed) ==
  LET args == IF parsed.t = "null" THEN JObj(<<>>) ELSE parsed
      toolSchema == IF toolCall.name \in DOMAIN schemas THEN schemas[toolCall.name] ELSE {}
  IN [kind |-> "tool", text |-> <<>>, callId |-> toolCall.id, name |-> toolCall.name,
      input |-> IF toolSchema # {}
                THEN fillMissingRequiredProperties(args, CHOOSE x \in toolSchema : TRUE)
                ELSE args]

\* processToolCall(toolCall, progress): the LanguageModelToolCallPart reported.
processToolCall(toolCall, schemas) ==
  ToolCallPart(toolCall, schemas, tryRepairJson(toolCall.arguments))

\* ------------------------------------- provideLanguageModelChatResponse
\* What the consumer loop keeps: the sink and the two totals.
Prov ==
  [progress |-> progress, totalContent |-> totalContent,
   totalToolCalls |-> totalToolCalls, lateReports |-> lateReports]

SetProv(pv) ==
  /\ progress' = pv.progress
  /\ totalContent' = pv.totalContent
  /\ totalToolCalls' = pv.totalToolCalls
  /\ lateReports' = pv.lateReports

\* progress.report for each part.
ReportParts(pv, parts) ==
  [pv EXCEPT !.progress = pv.progress \o parts,
             !.lateReports = pv.lateReports + (IF token THEN Len(parts) ELSE 0)]

ConsumeChunk_ToolsFirst(pv, content, finished) ==
  LET textParts == IF content # <<>> THEN <<TextPart(content)>> ELSE <<>>
      toolParts == [p \in DOMAIN finished |->
                      processToolCall(finished[p], currentToolSchemas)]
      reported == ReportParts(pv, toolParts \o textParts)
  IN [reported EXCEPT !.totalContent = pv.totalContent + Len(content),
                      !.totalToolCalls = pv.totalToolCalls + Len(finished)]

\* The body of the for await loop for one chunk, past the cancellation test.
ConsumeChunk(pv, content, finished) ==
  LET textParts == IF content # <<>> THEN <<TextPart(content)>> ELSE <<>>
      toolParts == [p \in DOMAIN finished |->
                      processToolCall(finished[p], currentToolSchemas)]
      reported == ReportParts(pv, textParts \o toolParts)
  IN [reported EXCEPT !.totalContent = pv.totalContent + Len(content),
                      !.totalToolCalls = pv.totalToolCalls + Len(finished)]

AfterLoop_NoDiagnostic(pv) == pv

\* After the loop: handleEmptyResponse when nothing was received.
AfterLoop(pv) ==
  IF pv.totalContent = 0 /\ pv.totalToolCalls = 0
  THEN ReportParts(pv, <<TextPart(Diagnostic)>>)
  ELSE pv

\* The for await loop receiving one yielded chunk: break when the token is
\* raised, else report; ends is TRUE when the loop is left.
Receive1(pv, content, finished) ==
  IF token THEN [pv |-> pv, ends |-> TRUE]
  ELSE [pv |-> ConsumeChunk(pv, content, finished), ends |-> FALSE]

\* The generator after its read loop: drain, yield what remains, return; the
\* consumer takes that chunk (or breaks) and leaves its loop.
Drained(d, pv) ==
  [st |-> d.st, finished |-> d.finished,
   pv |-> AfterLoop(IF d.finished # <<>> THEN Receive1(pv, <<>>, d.finished).pv ELSE pv)]

Drain(st, pv) == Drained(getRemainingToolCalls(st), pv)

\* The request ends after the drain d: the generator and the consumer are done.
Finish(d) ==
  /\ state' = d.st
  /\ yielded' = yielded \o d.finished
  /\ SetProv(d.pv)
  /\ spc' = "done"

\* A yielded chunk went to the consumer, which took it or left its loop (c).
Deliver(out, c) ==
  /\ state' = out.st
  /\ yielded' = yielded \o out.finished
  /\ SetProv(IF c.ends THEN AfterLoop(c.pv) ELSE c.pv)
  /\ spc' = IF c.ends THEN "done" ELSE "reading"

\* The indices of the slots that are pending: opened and not finalized.
PendingSlots(st) == {st.calls[p].index : p \in DOMAIN st.calls} \ st.finalized

\* The read loop after the line's outcome r.  lines notes the line's text,
\* whether its payload parsed into a delta or a message, whether a record was
\* yielded for it, the record's text and number of finished calls, whether
\* the consumer took the record, whether the payload carries a finish reason of
\* tool_calls or function_call, and the slots pending after the line.
AfterLine(r) ==
  /\ lines' = Append(lines,
                     [text |-> r.line.text,
                      chunk |-> \E p \in r.line.parsed : p.shape \in {"delta", "message"},
                      yields |-> r.yields, content |-> r.content,
                      finished |-> Len(r.out.finished),
                      taken |-> r.yields /\ ~token,
                      finish |-> \E p \in r.line.parsed :
                                   p.finishReason \in {"tool_calls", "function_call"},
                      pending |-> PendingSlots(r.out.st)])
  /\ IF r.yields
     THEN /\ Deliver(r.out, Receive1(Prov, r.content, r.out.finished))
          /\ UNCHANGED readerCancelled
     ELSE IF token
     THEN /\ readerCancelled' = TRUE
          /\ Finish(Drain(r.out.st, Prov))
     ELSE /\ state' = r.out.st
          /\ UNCHANGED <<yielded, readerCancelled, totalContent, totalToolCalls,
                         progress, lateReports, spc>>

\* ------------------------------------------------------------ SSE records
\* A tool_calls element: index is {} where the server omitted it, id and name
\* are "" and arguments <<>> where absent.
ToolCall(index, id, name, arguments) ==
  [index |-> index, id |-> id, name |-> name, arguments |-> arguments]

Indices == {{}, {0}, {1}}

\* Fragments of a streamed call: its opening with the name, a continuation, a
\* fragment that carries the identifier alone, and one that names index 0 with
\* another identifier and another name.
ToolCallDeltas ==
  {ToolCall(i, "", "f", <<"{">>) : i \in Indices}
    \cup {ToolCall(i, "", "", <<"}">>) : i \in Indices}
    \cup {ToolCall(i, "srv", "", <<>>) : i \in Indices}
    \cup {ToolCall({0}, "alt", "g", <<>>)}

\* Complete calls, as a full message carries them.
ToolCallsComplete ==
  {ToolCall(i, id, "f", <<"{", "}">>) : i \in Indices, id \in {"", "srv"}}

ToolCallPairs ==
  {<<ToolCall(i, "", "f", <<"{", "}">>), ToolCall(j, "", "f", <<"{", "}">>)>> :
     i \in {{}, {0}}, j \in {{}, {0}}}

FunctionCalls == {[name |-> "f", arguments |-> <<"{">>], [name |-> "", arguments |-> <<"}">>]}

\* What parseSSEData returns for a payload that parses: shape says which of
\* delta and message is present, "none" that neither is.
Parsed(shape, content, tool_calls, function_call, finishReason, id) ==
  [shape |-> shape, content |-> content, tool_calls |-> tool_calls,
   function_call |-> function_call, finishReason |-> finishReason, id |-> id]

ParsedChunks ==
  {Parsed("delta", <<>>, <<tc>>, {}, fr, "") :
     tc \in ToolCallDeltas, fr \in {"", "tool_calls"}}
    \cup {Parsed("delta", <<"t">>, <<>>, {}, fr, "") : fr \in {"", "tool_calls"}}
    \cup {Parsed("delta", <<>>, <<>>, {}, fr, "") : fr \in {"tool_calls", "function_call"}}
    \cup {Parsed("delta", <<>>, <<>>, {fc}, "", id) :
            fc \in FunctionCalls, id \in {"", "cmpl"}}
    \cup {Parsed("message", <<>>, <<tc>>, {}, "", "") : tc \in ToolCallsComplete}
    \cup {Parsed("message", <<>>, pair, {}, "", "") : pair \in ToolCallPairs}
    \cup {Parsed("message", <<>>, <<>>, {[name |-> "f", arguments |-> <<"{", "}">>]}, "", id) :
            id \in {"", "cmpl"}}
    \cup {Parsed("message", <<>>, <<ToolCall({0}, "", "f", <<"1">>)>>, {}, "", ""),
          Parsed("message", <<"t">>, <<>>, {}, "", ""),
          Parsed("message", <<>>, <<>>, {}, "tool_calls", ""),
          Parsed("none", <<>>, <<>>, {}, "", ""),
          Parsed("none", <<>>, <<>>, {}, "tool_calls", "")}

SSELine(text, parsed) == [text |-> text, parsed |-> parsed]

\* The lines a server sends: data lines with every chunk above, and the lines
\* that carry no chunk: blank ones, the sentinel, a comment and an event field,
\* a data field without the space, and a payload that is not JSON.
SSELines ==
  {SSELine(DataPrefix \o <<"{", "}">>, {parsed}) : parsed \in ParsedChunks}
    \cup {SSELine(<<>>, {}), SSELine(<<" ">>, {}),
          SSELine(DoneLine, {}), SSELine(DoneLine \o <<" ">>, {}),
          SSELine(<<":", "p">>, {}),
          SSELine(<<"d", "a", "t", "a", ":", "{", "}">>,
                  {Parsed("delta", <<"t">>, <<>>, {}, "", "")}),
          SSELine(DataPrefix \o <<"{">>, {})}

StreamInit ==
  /\ retryConfig = [maxRetries |-> 0]
  /\ config = loadConfig(DefaultSettings(0))
  /\ BudgetIdle
  /\ OverlapIdle
  /\ ModelsIdle
  /\ ChunkIdle
  /\ BackoffIdle
  /\ RetryIdle
  /\ RepairIdle
  /\ StreamIdle

\* provideLanguageModelChatResponse is called: the request is built
\* (buildToolsConfig), the generator is started and awaits fetchWithRetry.
StartChat(tools) ==
  /\ spc = "idle"
  /\ spc' = "fetching"
  /\ currentToolSchemas' = buildToolsConfig(tools, currentToolSchemas)
  /\ state' = createToolCallState
  /\ UNCHANGED <<yielded, nread, lines, readerCancelled, totalContent, totalToolCalls,
                 progress, lateReports, token, retryVars, repairVars, budgetVars, overlapVars, modelVars, chunkVars, backoffVars>>

\* fetchWithRetry returned an ok response: the read loop starts, and ends at
\* once when the token is already raised.
FetchDone ==
  /\ spc = "fetching"
  /\ IF token
     THEN /\ readerCancelled' = TRUE
          /\ Finish(Drain(state, Prov))
     ELSE /\ spc' = "reading"
          /\ UNCHANGED <<readerCancelled, state, yielded, totalContent, totalToolCalls,
                         progress, lateReports>>
  /\ UNCHANGED <<nread, lines, currentToolSchemas, token, retryVars, repairVars, budgetVars, overlapVars, modelVars, chunkVars, backoffVars>>

\* The send failed: the GatewayError goes through handleChatError to the caller.
FetchFailed ==
  /\ spc = "fetching"
  /\ spc' = "threw"
  /\ UNCHANGED <<state, yielded, nread, lines, readerCancelled, currentToolSchemas,
                 totalContent, totalToolCalls, progress, lateReports, token,
                 retryVars, repairVars, budgetVars, overlapVars, modelVars, chunkVars, backoffVars>>

\* reader.read() delivered one line; it is processed, its chunk (if any) is
\* consumed, and the read loop comes back to its cancellation test.
ReadRecord(line) ==
  /\ spc = "reading"
  /\ nread < MaxRecords
  /\ nread' = nread + 1
  /\ AfterLine(processSSELine(line, state))
  /\ UNCHANGED <<currentToolSchemas, token, retryVars, repairVars, budgetVars, overlapVars, modelVars, chunkVars, backoffVars>>

\* reader.read() reported the end of the stream.
ReadEnd ==
  /\ spc = "reading"
  /\ Finish(Drain(state, Prov))
  /\ UNCHANGED <<nread, lines, readerCancelled, currentToolSchemas, token, retryVars,
                 repairVars, budgetVars, overlapVars, modelVars, chunkVars, backoffVars>>

\* reader.read() rejected: the error is wrapped and rethrown to the caller.
ReadError ==
  /\ spc = "reading"
  /\ spc' = "threw"
  /\ UNCHANGED <<state, yielded, nread, lines, readerCancelled, currentToolSchemas,
                 totalContent, totalToolCalls, progress, lateReports, token,
                 retryVars, repairVars, budgetVars, overlapVars, modelVars, chunkVars, backoffVars>>

\* The caller raises the cancellation token while the request is running.
Cancel ==
  /\ spc \in {"fetching", "reading"}
  /\ ~token
  /\ token' = TRUE
  /\ UNCHANGED <<streamVars, retryVars, repairVars, budgetVars, overlapVars, modelVars, chunkVars, backoffVars>>

StreamNext ==
  \/ \E tools \in ToolLists : StartChat(tools)
  \/ FetchDone
  \/ FetchFailed
  \/ \E line \in SSELines : ReadRecord(line)
  \/ ReadEnd
  \/ ReadError
  \/ Cancel

SpecStream == StreamInit /\ [][StreamNext]_vars

\* --------------------------------------------------------- ContextBudgeter
\* A converted message is [id, chars, role, tool_calls, tool_call_id]: its
\* position in the conversation, the length of the text estimateMessageTokens
\* measures (the content and, where present, the JSON of tool_calls), its role,
\* the identifiers of the calls in tool_calls, and tool_call_id ({} where the
\* message has none).
Message(id, chars) ==
  [id |-> id, chars |-> chars, role |-> "user", tool_calls |-> {}, tool_call_id |-> {}]

\* { role: 'assistant', content, tool_calls }
AssistantMessage(id, chars, callIds) ==
  [id |-> id, chars |-> chars, role |-> "assistant", tool_calls |-> callIds,
   tool_call_id |-> {}]

\* { tool_call_id, role: 'tool', content }
ToolResultMessage(id, chars, callId) ==
  [id |-> id, chars |-> chars, role |-> "tool", tool_calls |-> {},
   tool_call_id |-> {callId}]

\* Math.ceil(a / b) for a >= 0
CeilDiv(a, b) == (a + b - 1) \div b

Min(a, b) == IF a <= b THEN a ELSE b

\* x || fallback, for a number
OrDefault(x, fallback) == IF x = 0 THEN fallback ELSE x

estimateMessageTokens_PerChar(message) == message.chars

\* estimateMessageTokens(message)
estimateMessageTokens(message) == CeilDiv(message.chars, 4)

RECURSIVE SumTokens(_)
\* totalTokens after the first loop of truncateMessagesToFit
SumTokens(messages) ==
  IF messages = <<>> THEN 0
  ELSE estimateMessageTokens(Head(messages)) + SumTokens(Tail(messages))

RECURSIVE KeepRecent_Skip(_, _, _, _, _)
KeepRecent_Skip(messages, i, usedTokens, maxTokens, recentMessages) ==
  IF i <= 1 THEN recentMessages
  ELSE IF usedTokens + estimateMessageTokens(messages[i]) <= maxTokens
  THEN KeepRecent_Skip(messages, i - 1, usedTokens + estimateMessageTokens(messages[i]),
                       maxTokens, <<messages[i]>> \o recentMessages)
  ELSE KeepRecent_Skip(messages, i - 1, usedTokens, maxTokens, recentMessages)

RECURSIVE KeepRecent(_, _, _, _, _)
\* The backward loop of truncateMessagesToFit from element i (1-based) down to
\* the second one: recentMessages when it ends or breaks.
KeepRecent(messages, i, usedTokens, maxTokens, recentMessages) ==
  IF i <= 1 THEN recentMessages
  ELSE IF usedTokens + estimateMessageTokens(messages[i]) <= maxTokens
  THEN KeepRecent(messages, i - 1, usedTokens + estimateMessageTokens(messages[i]),
                  maxTokens, <<messages[i]>> \o recentMessages)
  ELSE recentMessages

\* truncateMessagesToFit(messages, maxTokens)
truncateMessagesToFit(messages, maxTokens) ==
  IF messages = <<>> THEN messages
  ELSE IF SumTokens(messages) <= maxTokens THEN messages
  ELSE <<messages[1]>> \o KeepRecent(messages, Len(messages),
                                     estimateMessageTokens(messages[1]), maxTokens, <<>>)

calculateSafeMaxOutputTokens_NoFloor(estimatedInputTokens, toolsOverhead) ==
  Min(OrDefault(config.defaultMaxOutputTokens, 2048),
      OrDefault(config.defaultMaxTokens, 32768)
        - CeilDiv(6 * (estimatedInputTokens + toolsOverhead), 5) - 256)

calculateSafeMaxOutputTokens_NoBuffer(estimatedInputTokens, toolsOverhead) ==
  Max(64, Min(OrDefault(config.defaultMaxOutputTokens, 2048),
              OrDefault(config.defaultMaxTokens, 32768)
                - CeilDiv(6 * (estimatedInputTokens + toolsOverhead), 5)))

\* calculateSafeMaxOutputTokens(estimatedInputTokens, toolsOverhead);
\* Math.ceil(totalEstimatedTokens * 1.2) is ceil(6 * total / 5).
calculateSafeMaxOutputTokens(estimatedInputTokens, toolsOverhead) ==
  LET modelMaxContext == OrDefault(config.defaultMaxTokens, 32768)
      conservativeInputEstimate == CeilDiv(6 * (estimatedInputTokens + toolsOverhead), 5)
      bufferTokens == 256
  IN Max(64, Min(OrDefault(config.defaultMaxOutputTokens, 2048),
                 modelMaxContext - conservativeInputEstimate - bufferTokens))

RECURSIVE SumChars(_)
SumChars(messages) ==
  IF messages = <<>> THEN 0 ELSE Head(messages).chars + SumChars(Tail(messages))

\* inputText.length: the texts of the messages joined with '\n'
InputTextLength(messages) ==
  IF messages = <<>> THEN 0 ELSE SumChars(messages) + Len(messages) - 1

\* The request provideLanguageModelChatResponse builds, with the two estimates
\* it was sized with.  toolsChars is {} where options.tools is undefined, else
\* {JSON.stringify(options.tools).length}; maxTokensOption is {} where
\* options.modelOptions sets no max_tokens, else {that value}.
RequestOptions(messages, toolsChars, maxTokensOption) ==
  LET modelMaxContext == OrDefault(config.defaultMaxTokens, 32768)
      desiredOutputTokens == Min(OrDefault(config.defaultMaxOutputTokens, 2048),
                                 modelMaxContext \div 2)
      toolsTokenEstimate == IF toolsChars = {} THEN 0
                            ELSE CeilDiv(3 * (CHOOSE n \in toolsChars : TRUE), 10)
      maxInputTokens == modelMaxContext - desiredOutputTokens - toolsTokenEstimate - 256
      truncatedMessages == truncateMessagesToFit(messages, maxInputTokens)
      toolsOverhead == IF toolsChars = {} THEN 0
                       ELSE CeilDiv(CHOOSE n \in toolsChars : TRUE, 4)
      estimatedInputTokens == CeilDiv(InputTextLength(truncatedMessages), 4)
      safeMaxOutputTokens == calculateSafeMaxOutputTokens(estimatedInputTokens, toolsOverhead)
  IN [messages |-> truncatedMessages,
      max_tokens |-> IF maxTokensOption = {} THEN safeMaxOutputTokens
                     ELSE CHOOSE n \in maxTokensOption : TRUE,
      estimatedInputTokens |-> estimatedInputTokens,
      toolsOverhead |-> toolsOverhead]

\* Lengths of message texts: 1, 2 and 3 estimated tokens.
MessageChars == {4, 5, 9}

Numbered(chars) == [i \in DOMAIN chars |-> Message(i - 1, chars[i])]

\* Ten messages of one estimated token each.
TenMessages == Numbered([i \in 1..10 |-> 4])

\* A conversation that is one long first message (300 estimated tokens).
LongHead == Numbered(<<1200>>)

\* A question, the assistant's tool call, the tool's result, and then either
\* nothing or the assistant's answer.
ToolExchanges ==
  {<<Message(0, c[1]), AssistantMessage(1, c[2], {"a"}), ToolResultMessage(2, c[3], "a")>>
     \o tail :
     c \in [1..3 -> MessageChars],
     tail \in {<<>>, <<[Message(3, 4) EXCEPT !.role = "assistant"]>>}}

\* The conversations the budgeting functions are applied to.
MessageLists ==
  {Numbered(chars) : chars \in UNION {[1..n -> MessageChars] : n \in 0..MaxMessages}}
    \cup {TenMessages, LongHead}
    \cup ToolExchanges

Budgets == (0 - 1)..MaxBudget

\* Settings of the two token limits: unset (0), a window a few tokens wider than
\* the fixed margins, a larger one; output limits below, at and above them.
BudgetSettings ==
  {Settings(60000, 0, defaultMaxTokens, defaultMaxOutputTokens) :
     defaultMaxTokens \in {0, 324, 400},
     defaultMaxOutputTokens \in {0, 64, 100, 4096}}

InputEstimates == {0, 1, 5, 50, 60, 300}

ToolsOverheads == {0, 10, 100}

BudgetInit ==
  /\ retryConfig = [maxRetries |-> 0]
  /\ config \in {loadConfig(settings) : settings \in BudgetSettings}
  /\ RetryIdle
  /\ RepairIdle
  /\ StreamIdle
  /\ BudgetIdle
  /\ OverlapIdle
  /\ ModelsIdle
  /\ ChunkIdle
  /\ BackoffIdle

\* One call of truncateMessagesToFit.
Truncate(messages, maxTokens) ==
  /\ budgetCall = {}
  /\ budgetCall' = {[op |-> "truncate", messages |-> messages, maxTokens |-> maxTokens]}
  /\ budgetResult' = {truncateMessagesToFit(messages, maxTokens)}
  /\ UNCHANGED <<retryVars, token, repairVars, streamVars, overlapVars, modelVars, chunkVars, backoffVars>>

\* One call of calculateSafeMaxOutputTokens.
CalculateSafe(estimatedInputTokens, toolsOverhead) ==
  /\ budgetCall = {}
  /\ budgetCall' = {[op |-> "calculate", estimatedInputTokens |-> estimatedInputTokens,
                     toolsOverhead |-> toolsOverhead]}
  /\ budgetResult' = {calculateSafeMaxOutputTokens(estimatedInputTokens, toolsOverhead)}
  /\ UNCHANGED <<retryVars, token, repairVars, streamVars, overlapVars, modelVars, chunkVars, backoffVars>>

\* provideLanguageModelChatResponse up to the request it sends.
BuildRequest(messages, toolsChars, maxTokensOption) ==
  /\ budgetCall = {}
  /\ budgetCall' = {[op |-> "request", messages |-> messages, toolsChars |-> toolsChars,
                     maxTokensOption |-> maxTokensOption]}
  /\ budgetResult' = {RequestOptions(messages, toolsChars, maxTokensOption)}
  /\ UNCHANGED <<retryVars, token, repairVars, streamVars, overlapVars, modelVars, chunkVars, backoffVars>>

BudgetNext ==
  \/ \E messages \in MessageLists, maxTokens \in Budgets : Truncate(messages, maxTokens)
  \/ \E e \in InputEstimates, t \in ToolsOverheads : CalculateSafe(e, t)
  \/ \E messages \in MessageLists, toolsChars \in {{}, {40}}, o \in {{}, {4096}} :
       BuildRequest(messages, toolsChars, o)

SpecBudget == BudgetInit /\ [][BudgetNext]_vars

\* ------------------------------------------- overlapping chat requests
\* Two provideLanguageModelChatResponse calls on the one provider.  Each runs
\* from its start to the for await loop without leaving the event loop to
\* another request (its awaits before the loop are already settled), then
\* waits for chunks; the other request may run in every such wait.

\* The schema of a second tool: one required string property q.
SchemaG ==
  [required |-> {<<(<<"q">>)>>},
   properties |-> (<<"q">> :> [type |-> "string", default |-> {}])]

\* options.tools of the requests: none, the tool f, the tool g.
OverlapToolLists ==
  {<<>>, <<[name |-> "f", inputSchema |-> {SchemaF}]>>,
   <<[name |-> "g", inputSchema |-> {SchemaG}]>>}

\* Finished tool calls the accumulator hands to the consumer: {} and {"p":1}
\* for either tool.
OverlapCalls ==
  {[id |-> "c", name |-> name, arguments |-> arguments] :
     name \in {"f", "g"},
     arguments \in {<<"{", "}">>, <<"{", "\"", "p", "\"", ":", "1", "}">>}}

OverlapInit ==
  /\ retryConfig = [maxRetries |-> 0]
  /\ config = loadConfig(DefaultSettings(0))
  /\ RetryIdle
  /\ RepairIdle
  /\ StreamIdle
  /\ BudgetIdle
  /\ OverlapIdle
  /\ ModelsIdle
  /\ ChunkIdle
  /\ BackoffIdle

\* Request r starts: buildToolsConfig registers its tools in the provider's
\* currentToolSchemas, and the request goes on to await its stream.
StartRequest(r, tools) ==
  /\ requests[r].pc = "idle"
  /\ requests' = [requests EXCEPT ![r].pc = "streaming", ![r].tools = tools]
  /\ currentToolSchemas' = buildToolsConfig(tools, currentToolSchemas)
  /\ UNCHANGED <<spc, state, yielded, nread, lines, readerCancelled, totalContent,
                 totalToolCalls, progress, lateReports, retryVars, token, repairVars,
                 budgetVars, modelVars, chunkVars, backoffVars>>

\* The stream of request r yields a finished tool call: processToolCall reports
\* it to the request's sink.
ToolCallFinished(r, toolCall) ==
  /\ requests[r].pc = "streaming"
  /\ Len(requests[r].reported) < MaxCallsPerRequest
  /\ requests' = [requests EXCEPT ![r].reported =
                    Append(@, [call |-> toolCall,
                               part |-> processToolCall(toolCall, currentToolSchemas)])]
  /\ UNCHANGED <<streamVars, retryVars, token, repairVars, budgetVars, modelVars, chunkVars, backoffVars>>

\* The stream of request r ends and the call returns.
EndRequest(r) ==
  /\ requests[r].pc = "streaming"
  /\ requests' = [requests EXCEPT ![r].pc = "done"]
  /\ UNCHANGED <<streamVars, retryVars, token, repairVars, budgetVars, modelVars, chunkVars, backoffVars>>

OverlapNext ==
  \/ \E r \in RequestIds, tools \in OverlapToolLists : StartRequest(r, tools)
  \/ \E r \in RequestIds, toolCall \in OverlapCalls : ToolCallFinished(r, toolCall)
  \/ \E r \in RequestIds : EndRequest(r)

SpecOverlap == OverlapInit /\ [][OverlapNext]_vars

\* ------------------------------------------- model list, credential and log
\* API keys are strings of characters; only B needs lowering here.
ToLower(c) == IF c = "B" THEN "b" ELSE c

BearerPrefix == <<"b", "e", "a", "r", "e", "r", " ">>

\* getHeaders(): Authorization and x-api-key, each {} where it is not set.
getHeaders(apiKey) ==
  IF apiKey # <<>>
  THEN LET raw == Trim(apiKey)
           bearer == IF HasAt([i \in DOMAIN raw |-> ToLower(raw[i])], 1, BearerPrefix)
                     THEN raw
                     ELSE <<"B", "e", "a", "r", "e", "r", " ">> \o raw
       IN [Authorization |-> {bearer}, xApiKey |-> {raw}]
  ELSE [Authorization |-> {}, xApiKey |-> {}]

\* initializeApiKey(): the key of SecretStorage, where there is one, is put
\* into this.config, which the client shares.
initializeApiKey(cfg, apiKey) ==
  IF apiKey # <<>> THEN [cfg EXCEPT !.apiKey = apiKey] ELSE cfg

LOG_LEVELS == [debug |-> 0, info |-> 1, warn |-> 2, error |-> 3]

\* this.log(level, message): the lines it adds to the output channel.  A line
\* is the sequence of its pieces of text.
Logged(cfg, level, message) ==
  IF LOG_LEVELS[level] >= LOG_LEVELS[cfg.logLevel] THEN {message} ELSE {}

\* What SecretStorage may hold: no key, or a key.
Secrets == {<<>>, <<"k">>}

\* Settings with the given server and cache lifetime.
ModelSettings ==
  {[DefaultSettings(1) EXCEPT !.serverUrl = url, !.modelCacheTtlMs = ttl] :
     url \in {"http://a", "http://b"}, ttl \in {0, MaxClock}}

\* The test of the cache in provideLanguageModelChatInformation.
CacheFresh(now) ==
  /\ cachedModels # {}
  /\ config.modelCacheTtlMs > 0
  /\ now - modelCacheTimestamp < config.modelCacheTtlMs

\* The list built from the response of the server at url, for the call that
\* started as the given event; ids are the model ids the server listed.
ModelList(url, started, ids) ==
  [url |-> url, fetch |-> started, ids |-> ids,
   maxInputTokens |-> config.defaultMaxTokens]

\* The bodies a server may answer a refused request with: a fixed text, or a
\* text that repeats the key it was given.
ErrorTexts(headers) ==
  {<<"denied">>} \cup {<<"invalid key ">> \o key : key \in headers.xApiKey}

\* The constructor with the key loaded: no call made yet.
ModelsInit ==
  /\ retryConfig = [maxRetries |-> 1]
  /\ secret \in Secrets
  /\ config \in {initializeApiKey(loadConfig(settings), secret) :
                   settings \in {m \in ModelSettings : m.serverUrl = "http://a"}}
  /\ clock = 0
  /\ cachedModels = {}
  /\ modelCacheTimestamp = 0
  /\ infoCalls = <<>>
  /\ events = 0
  /\ changedAt = {}
  /\ sent = <<>>
  /\ log = IF secret # <<>> THEN {<<"API key loaded from secure storage">>} ELSE {}
  /\ RetryIdle
  /\ RepairIdle
  /\ StreamIdle
  /\ BudgetIdle
  /\ OverlapIdle
  /\ ChunkIdle
  /\ BackoffIdle

\* Time passes.
Tick ==
  /\ clock < MaxClock
  /\ clock' = clock + 1
  /\ UNCHANGED <<secret, cachedModels, modelCacheTimestamp, infoCalls, events,
                 changedAt, sent, log, retryVars, token, repairVars, streamVars,
                 budgetVars, overlapVars,
                 chunkVars, backoffVars>>

\* provideLanguageModelChatInformation is called: it returns the cached list,
\* or calls fetchModels, whose first request goes out with getHeaders().
ProvideInformation ==
  /\ Len(infoCalls) < MaxInfoCalls
  /\ events' = events + 1
  /\ LET call == [pc |-> "done", now |-> clock, ttl |-> config.modelCacheTtlMs,
                  started |-> events + 1, ended |-> events + 1, http |-> FALSE,
                  ok |-> TRUE, returned |-> cachedModels, url |-> config.serverUrl,
                  headers |-> getHeaders(config.apiKey)]
         configured == Logged(config, "debug",
                              <<"API key configured: ",
                                IF config.apiKey # <<>> THEN "yes" ELSE "no">>)
     IN IF CacheFresh(clock)
        THEN /\ infoCalls' = Append(infoCalls, call)
             /\ log' = log \cup configured
                         \cup Logged(config, "debug", <<"Using cached models">>)
             /\ UNCHANGED sent
        ELSE /\ infoCalls' = Append(infoCalls,
                                    [call EXCEPT !.pc = "fetching", !.http = TRUE,
                                                 !.ok = FALSE, !.returned = {},
                                                 !.ended = 0])
             /\ log' = log \cup configured
                         \cup Logged(config, "info",
                                     <<"Fetching models from inference server...">>)
             /\ sent' = Append(sent, call.headers)
  /\ UNCHANGED <<secret, clock, cachedModels, modelCacheTimestamp, changedAt,
                 retryVars, token, repairVars, streamVars, budgetVars, overlapVars,
                 chunkVars, backoffVars>>

\* fetchModels of call i returned the server's list: it is stored with the
\* time the call read when it started, and returned.
FetchModelsDone(i) ==
  /\ infoCalls[i].pc = "fetching"
  /\ events' = events + 1
  /\ LET list == ModelList(infoCalls[i].url, infoCalls[i].started, <<"m">>)
     IN /\ cachedModels' = {list}
        /\ modelCacheTimestamp' = infoCalls[i].now
        /\ infoCalls' = [infoCalls EXCEPT ![i].pc = "done", ![i].ok = TRUE,
                                          ![i].returned = {list},
                                          ![i].ended = events + 1]
        /\ log' = log \cup Logged(config, "info", <<"Found 1 models: ", "m">>)
  /\ UNCHANGED <<secret, clock, changedAt, sent, retryVars, token, repairVars,
                 streamVars, budgetVars, overlapVars,
                 chunkVars, backoffVars>>

FetchModelsFailed_Cached(i, errorText) ==
  /\ infoCalls[i].pc = "fetching"
  /\ events' = events + 1
  /\ LET message == <<"Failed to fetch models: 401 Unauthorized">>
                      \o (IF errorText # <<>> THEN <<" - ">> \o errorText ELSE <<>>)
         list == ModelList(infoCalls[i].url, infoCalls[i].started, <<>>)
     IN /\ infoCalls' = [infoCalls EXCEPT ![i].pc = "done", ![i].returned = {list},
                                          ![i].ended = events + 1]
        /\ cachedModels' = {list}
        /\ modelCacheTimestamp' = infoCalls[i].now
        /\ log' = log \cup Logged(config, "error",
                                  <<"Failed to fetch models: ">> \o message)
  /\ UNCHANGED <<secret, clock, changedAt, sent,
                 retryVars, token, repairVars, streamVars, budgetVars, overlapVars,
                 chunkVars, backoffVars>>

\* fetchModels of call i threw: the server refused the request with the given
\* body.  The error is logged with its message and [] is returned.
FetchModelsFailed(i, errorText) ==
  /\ infoCalls[i].pc = "fetching"
  /\ events' = events + 1
  /\ LET message == <<"Failed to fetch models: 401 Unauthorized">>
                      \o (IF errorText # <<>> THEN <<" - ">> \o errorText ELSE <<>>)
     IN /\ infoCalls' = [infoCalls EXCEPT
                           ![i].pc = "done",
                           ![i].returned = {ModelList(infoCalls[i].url,
                                                      infoCalls[i].started, <<>>)},
                           ![i].ended = events + 1]
        /\ log' = log \cup Logged(config, "error",
                                  <<"Failed to fetch models: ">> \o message)
  /\ UNCHANGED <<secret, clock, cachedModels, modelCacheTimestamp, changedAt, sent,
                 retryVars, token, repairVars, streamVars, budgetVars, overlapVars,
                 chunkVars, backoffVars>>

\* The onDidChangeConfiguration handler: reloadConfig (loadConfig and
\* client.updateConfig), then the model cache is cleared.
onDidChangeConfiguration(settings) ==
  /\ Cardinality(changedAt) < MaxChanges
  /\ events' = events + 1
  /\ changedAt' = changedAt \cup {events + 1}
  /\ config' = loadConfig(settings)
  /\ cachedModels' = {}
  /\ modelCacheTimestamp' = 0
  /\ log' = log \cup Logged(config, "info", <<"Configuration changed, reloading...">>)
                \cup {<<"Configuration reloaded">>}
  /\ UNCHANGED <<secret, clock, infoCalls, sent, sendVars, token, repairVars,
                 streamVars, budgetVars, overlapVars,
                 chunkVars, backoffVars>>

ModelsNext ==
  \/ Tick
  \/ ProvideInformation
  \/ \E i \in DOMAIN infoCalls : FetchModelsDone(i)
  \/ \E i \in DOMAIN infoCalls :
       \E errorText \in ErrorTexts(infoCalls[i].headers) : FetchModelsFailed(i, errorText)
  \/ \E settings \in {m \in ModelSettings : m.serverUrl = "http://b"} :
       onDidChangeConfiguration(settings)

SpecModels == ModelsInit /\ [][ModelsNext]_vars

\* The same provider over shorter runs: fewer calls, clock values and changes.
ShortCalls == 2

ShortClock == 1

ShortChanges == 1

ShortNext ==
  \/ clock < ShortClock /\ Tick
  \/ Len(infoCalls) < ShortCalls /\ ProvideInformation
  \/ \E i \in DOMAIN infoCalls : FetchModelsDone(i)
  \/ \E i \in DOMAIN infoCalls :
       \E errorText \in ErrorTexts(infoCalls[i].headers) : FetchModelsFailed(i, errorText)
  \/ /\ Cardinality(changedAt) < ShortChanges
     /\ \E settings \in {m \in ModelSettings : m.serverUrl = "http://b"} :
          onDidChangeConfiguration(settings)

SpecModelsShort == ModelsInit /\ [][ShortNext]_vars

\* ------------------------------------------- the read loop and its buffer
\* Bytes of a response body: "d" is any byte of a line's text, "\n" the line
\* feed, "L" and "C" the lead and the continuation byte of a two-byte UTF-8
\* character.  Decoded text has "d", "\n", "e" for the two-byte character and
\* "?" for U+FFFD.
MaxBytes == 3

Bytes == {"d", "\n", "L", "C"}

\* The bodies a server sends.
Bodies == UNION {[1..n -> Bytes] : n \in 0..MaxBytes}

RECURSIVE decode(_)
\* decoder.decode(value, { stream: true }) on the bytes held back followed by
\* value: the text produced, and the bytes held back for the next call (a lead
\* byte whose continuation has not arrived).
decode(bytes) ==
  IF bytes = <<>> THEN [text |-> <<>>, held |-> <<>>]
  ELSE IF Head(bytes) = "L"
  THEN IF Len(bytes) = 1 THEN [text |-> <<>>, held |-> bytes]
       ELSE IF bytes[2] = "C"
       THEN LET r == decode(Tail(Tail(bytes)))
            IN [r EXCEPT !.text = <<"e">> \o r.text]
       ELSE LET r == decode(Tail(bytes))
            IN [r EXCEPT !.text = <<"?">> \o r.text]
  ELSE LET r == decode(Tail(bytes))
       IN [r EXCEPT !.text = <<IF Head(bytes) = "C" THEN "?" ELSE Head(bytes)>> \o r.text]

RECURSIVE Split(_, _, _)
\* text.split('\n'), given the pieces found so far and the piece under way.
Split(text, pieces, piece) ==
  IF text = <<>> THEN Append(pieces, piece)
  ELSE IF Head(text) = "\n" THEN Split(Tail(text), Append(pieces, piece), <<>>)
  ELSE Split(Tail(text), pieces, Append(piece, Head(text)))

SplitBuffer_NoCarry(text) ==
  LET pieces == Split(text, <<>>, <<>>)
  IN [lines |-> IF pieces[Len(pieces)] = <<>>
                THEN SubSeq(pieces, 1, Len(pieces) - 1) ELSE pieces,
      rest |-> <<>>]

\* const lines = buffer.split('\n'); buffer = lines.pop() || '';
SplitBuffer(text) ==
  LET pieces == Split(text, <<>>, <<>>)
  IN [lines |-> SubSeq(pieces, 1, Len(pieces) - 1), rest |-> pieces[Len(pieces)]]

ChunkInit ==
  /\ retryConfig = [maxRetries |-> 0]
  /\ config = loadConfig(DefaultSettings(0))
  /\ RetryIdle
  /\ RepairIdle
  /\ StreamIdle
  /\ BudgetIdle
  /\ OverlapIdle
  /\ ModelsIdle
  /\ ChunkIdle
  /\ BackoffIdle

\* fetchWithRetry returned the response with the given body: the reader and
\* the decoder are made, buffer is ''.
OpenBody(body) ==
  /\ cpc = "idle"
  /\ cpc' = "reading"
  /\ wire' = body
  /\ UNCHANGED <<chunksRead, held, buffer, processed, retryVars, token, repairVars,
                 streamVars, budgetVars, overlapVars, modelVars, backoffVars>>

\* reader.read() delivered the next n bytes: they are decoded and appended to
\* buffer, the complete lines go to processSSELine, the rest stays in buffer.
ReadChunk(n) ==
  /\ cpc = "reading"
  /\ n \in 1..Len(wire)
  /\ LET value == SubSeq(wire, 1, n)
         decoded == decode(held \o value)
         parts == SplitBuffer(buffer \o decoded.text)
     IN /\ wire' = SubSeq(wire, n + 1, Len(wire))
        /\ chunksRead' = Append(chunksRead, value)
        /\ held' = decoded.held
        /\ buffer' = parts.rest
        /\ processed' = processed \o parts.lines
  /\ UNCHANGED <<cpc, retryVars, token, repairVars, streamVars, budgetVars,
                 overlapVars, modelVars, backoffVars>>

\* reader.read() reported done: the loop is left; buffer is not looked at again.
ReadBodyEnd ==
  /\ cpc = "reading"
  /\ wire = <<>>
  /\ cpc' = "done"
  /\ UNCHANGED <<wire, chunksRead, held, buffer, processed, retryVars, token,
                 repairVars, streamVars, budgetVars, overlapVars, modelVars,
                 backoffVars>>

ChunkNext ==
  \/ \E body \in Bodies : OpenBody(body)
  \/ \E n \in 1..MaxBytes : ReadChunk(n)
  \/ ReadBodyEnd

SpecChunks == ChunkInit /\ [][ChunkNext]_vars

\* ------------------------------------------------- calculateBackoffDelay
MaxAttempt == 3

\* Math.random() is one of 0/RandomSteps .. (RandomSteps - 1)/RandomSteps.
RandomSteps == 4

\* Delays are counted in 1/Scale ms, which keeps 0.3 * random * delay whole.
Scale == 10 * RandomSteps

calculateBackoffDelay_Uncapped(cfg, n, random) ==
  cfg.baseDelayMs * (2 ^ n) * Scale + 3 * random * cfg.baseDelayMs * (2 ^ n)

\* calculateBackoffDelay(attempt) for attempt = n, with Math.random() = random / RandomSteps.
calculateBackoffDelay(cfg, n, random) ==
  LET exponentialDelay == cfg.baseDelayMs * (2 ^ n)
      jitter == 3 * random * exponentialDelay
  IN Min(exponentialDelay * Scale + jitter, cfg.maxDelayMs * Scale)

\* DEFAULT_RETRY_CONFIG, and what a caller may pass to the constructor or to
\* updateConfig for the two delays.
RetryConfigs ==
  [maxRetries : {3}, baseDelayMs : {0, 1000, 3000}, maxDelayMs : {500, 9000, 10000}]

BackoffInit ==
  /\ retryConfig \in RetryConfigs
  /\ config = loadConfig(DefaultSettings(3))
  /\ RetryIdle
  /\ RepairIdle
  /\ StreamIdle
  /\ BudgetIdle
  /\ OverlapIdle
  /\ ModelsIdle
  /\ ChunkIdle
  /\ BackoffIdle

\* One call of calculateBackoffDelay.
Backoff(n, random) ==
  /\ backoffCall = {}
  /\ backoffCall' = {[attempt |-> n, random |-> random]}
  /\ backoffDelay' = {calculateBackoffDelay(retryConfig, n, random)}
  /\ UNCHANGED <<retryVars, token, repairVars, streamVars, budgetVars, overlapVars,
                 modelVars, chunkVars>>

BackoffNext == \E n \in 0..MaxAttempt, random \in 0..(RandomSteps - 1) :
                 Backoff(n, random)

SpecBackoff == BackoffInit /\ [][BackoffNext]_vars

\* ------------------------------------------------- claims on the transport

\* An attempt that ended in a failure fetchWithRetry classifies as retryable.
RetryableFailure(o) ==
  \/ \E s \in o.status : ~Ok(s) /\ s \in RetryableStatusCodes
  \/ \E m \in o.error : isRetryableError({m}, {})

\* An attempt that ended in a response whose status is outside the retryable set.
NonRetryableStatus(o) == \E s \in o.status : s \notin RetryableStatusCodes

\* C4: one send makes at most maxRetries + 1 HTTP attempts and at most maxRetries
\* backoff sleeps, and when it is over fetchWithRetry has returned a response or
\* raised.
C4_BoundedAttempts ==
  /\ attempts <= retryConfig.maxRetries + 1
  /\ sleeps <= retryConfig.maxRetries
  /\ attempt <= retryConfig.maxRetries
  /\ rpc = "done" => fwr.kind \in {"response", "GatewayError"}

C4_Witness ==
  /\ rpc = "done"
  /\ retryConfig.maxRetries = 2
  /\ attempts = 3
  /\ sleeps = 2

\* C5: a response whose status is outside {429, 500, 502, 503, 504} ends the send
\* at once: it is the last attempt, no sleep follows it (one attempt and no sleep
\* when it is the first answer), fetchWithRetry returns it, and when it is not ok
\* the caller gets one GatewayError with that status and isRetryable = FALSE.
C5_NonRetryableStatusNotRetried ==
  \A i \in DOMAIN outcomes :
    NonRetryableStatus(outcomes[i]) =>
      /\ i = Len(outcomes)
      /\ rpc = "done"
      /\ attempts = i
      /\ sleeps = i - 1
      /\ fwr.kind = "response"
      /\ \A s \in outcomes[i].status :
           ~Ok(s) => callResult = GatewayError({s}, FALSE)

C5_Witness ==
  /\ rpc = "done"
  /\ outcomes = <<[status |-> {404}, error |-> {}]>>
  /\ attempts = 1
  /\ sleeps = 0
  /\ callResult = GatewayError({404}, FALSE)

\* C6 (as claimed): when all maxRetries + 1 attempts ended in a retryable status
\* or a transient error, the caller gets a GatewayError whose retryable flag is
\* FALSE.
C6_ExhaustedIsTerminal ==
  ( /\ rpc = "done"
    /\ Len(outcomes) = retryConfig.maxRetries + 1
    /\ \A i \in DOMAIN outcomes : RetryableFailure(outcomes[i]) )
  => /\ callResult.kind = "GatewayError"
     /\ callResult.isRetryable = FALSE

\* C7 (as claimed): once the caller has raised its cancellation during a send, no
\* new HTTP attempt is started.
C7_CancelNotRetried == [][token => attempts' = attempts]_vars

\* C8: as soon as an attempt answers with a status outside the retryable set,
\* fetchWithRetry returns that very response, whatever failures came before, and
\* an ok response reaches the caller without any error.
C8_TransientFailuresInvisible ==
  \A i \in DOMAIN outcomes :
    NonRetryableStatus(outcomes[i]) =>
      /\ i = Len(outcomes)
      /\ fwr = [kind |-> "response", statusCode |-> outcomes[i].status,
                isRetryable |-> FALSE]
      /\ \A s \in outcomes[i].status : Ok(s) => callResult.kind = "ok"

C8_Witness ==
  /\ Len(outcomes) = 3
  /\ outcomes[1].status = {503}
  /\ outcomes[2].error = {"Request timeout"}
  /\ outcomes[3].status = {200}
  /\ fwr.kind = "response"
  /\ callResult.kind = "ok"

\* ---------------------------------------------------- claims on the repair

Example9 == SubSeq(DocString, 1, 9)
Example10 == SubSeq(DocArray, 1, 11)

\* Prefixes of {"a": "hi"} that end inside the string value.
CutInsideString == {SubSeq(DocString, 1, n) : n \in 7..9}

\* C9 (as claimed): the input {"a": "hi repairs to the object {"a": "hi"}, and an
\* object cut off inside its only unterminated string value is repaired and
\* parses.
C9_RepairClosesTruncatedString ==
  repairResult # {} =>
    /\ jsonStr = Example9 =>
         repairResult = {JObj(<<"a">> :> JStr(<<"h", "i">>))}
    /\ jsonStr \in CutInsideString => repairResult # {JNull}

C1_NothingReportedAfterCancel == lateReports = 0

\* C2: within one streamed response no slot index is finalized twice: the calls
\* handed on by finish signals, full-message records and the end-of-stream drain
\* have pairwise different indices, and they are the indices marked finalized.
C2_FinalizedAtMostOnce ==
  /\ \A p, q \in DOMAIN yielded :
       yielded[p].index = yielded[q].index => p = q
  /\ state.finalized = {yielded[p].index : p \in DOMAIN yielded}

\* A finish signal finalized an index, more came for that index afterwards (a
\* fragment with a second finish signal, or a full-message record), and the
\* stream ended and was drained.
C2_Witness ==
  /\ spc = "done"
  /\ ~token
  /\ nread = 2
  /\ Len(yielded) = 1
  /\ yielded[1].via = "finish"
  /\ state.received[yielded[1].index] # yielded[1].received

IsPrefix(a, b) == Len(a) <= Len(b) /\ SubSeq(b, 1, Len(a)) = a

IsSuffix(a, b) == Len(a) <= Len(b) /\ SubSeq(b, Len(b) - Len(a) + 1, Len(b)) = a

\* Every pending entry stays where it is, for the same index, and its argument
\* string only grows at the end.
ArgumentsAppendOnly ==
  \A p \in DOMAIN state.calls :
    /\ p \in DOMAIN state'.calls
    /\ state'.calls[p].index = state.calls[p].index
    /\ IsPrefix(state.calls[p].arguments, state'.calls[p].arguments)

\* C3 (as claimed): the argument string of every finalized call is the
\* concatenation, in arrival order, of the argument text received for its index,
\* and an accumulated argument string is a prefix of each of its later values.
C3_ArgumentsAreConcatenation ==
  /\ [](\A p \in DOMAIN yielded : yielded[p].arguments = yielded[p].received)
  /\ [][ArgumentsAppendOnly]_vars

\* C3 (amended): a call finalized by a finish signal or by the end-of-stream
\* drain carries the concatenation, in arrival order, of the argument text
\* received for its index up to then; a call finalized by a full-message record
\* carries that record's own argument string, the last text received for the
\* index, whatever fragments came before; and an accumulated argument string is
\* a prefix of each of its later values.
C3_AppendOnlyArguments ==
  /\ [](\A p \in DOMAIN yielded :
          /\ yielded[p].via \in {"finish", "drain"} =>
               yielded[p].arguments = yielded[p].received
          /\ yielded[p].via = "message" =>
               IsSuffix(yielded[p].arguments, yielded[p].received))
  /\ [][ArgumentsAppendOnly]_vars

\* Two fragments for one index in two records, the second with the finish
\* signal: the call carries both, in order.
C3_Witness ==
  \E p \in DOMAIN yielded :
    /\ yielded[p].via = "finish"
    /\ nread = 2
    /\ yielded[p].arguments = <<"{", "}">>
    /\ yielded[p].received = <<"{", "}">>

\* ------------------------------------------------ claims on processToolCall

IsToolPart(part) == part.kind = "tool"

\* The tool-call parts the sink was given, in order.
ToolParts == SelectSeq(progress, IsToolPart)

\* C11: every finished call the consumer took is reported, in order, with its
\* identifier and name; when the repair of its argument string fails the
\* reported argument is the empty object (filled with the required property of
\* the declared schema where there is one), and the other calls of the same
\* chunk are reported all the same.
C11_RepairFailureDegrades ==
  /\ Len(ToolParts) = totalToolCalls
  /\ Len(ToolParts) <= Len(yielded)
  /\ \A i \in DOMAIN ToolParts :
       /\ ToolParts[i].callId = yielded[i].id
       /\ ToolParts[i].name = yielded[i].name
       /\ tryRepairJson(yielded[i].arguments) = JNull =>
            ToolParts[i].input =
              IF yielded[i].name \in DOMAIN currentToolSchemas
              THEN JObj(<<"p">> :> JStr(<<>>))
              ELSE JObj(<<>>)

\* The drain handed on two calls in one chunk; the repair of the second one's
\* arguments failed, and both were reported.
C11_Witness ==
  /\ spc = "done"
  /\ Len(yielded) = 2
  /\ Len(ToolParts) = 2
  /\ yielded[1].via = "drain"
  /\ yielded[2].via = "drain"
  /\ tryRepairJson(yielded[1].arguments) # JNull
  /\ tryRepairJson(yielded[2].arguments) = JNull
  /\ ToolParts[2].input = JObj(<<>>)

\* C13 (as claimed): the arguments of every tool call reported to the sink are
\* a JSON object.
C13_ArgumentsAreObject ==
  \A i \in DOMAIN progress :
    progress[i].kind = "tool" => progress[i].input.t = "object"

\* ------------------------------------------------ claims on the configuration

\* C19 (as claimed): a reload while a request is in flight changes no
\* configuration value the request uses: every attempt of the send arms its
\* timer with the requestTimeout in force when the send started.
C19_RequestKeepsItsConfiguration ==
  \A c \in startConfig :
    \A i \in DOMAIN timeouts : timeouts[i] = c.requestTimeout

\* C20 (as claimed): a send that starts after a configuration change retries as
\* the most recently loaded configuration says: the maxRetries fetchWithRetry
\* applies is the maxRetries of the configuration in force when the send started.
C20_ReloadAppliesRetrySettings ==
  \A c \in startConfig : retryConfig.maxRetries = c.maxRetries

\* -------------------------------------------------- claims on the budgeting

\* Estimated tokens of a message: its characters over four, rounded up.
TokensOf(message) == (message.chars + 3) \div 4

RECURSIVE TokensFrom(_, _)
\* The estimated tokens of the messages from position k on.
TokensFrom(messages, k) ==
  IF k > Len(messages) THEN 0 ELSE TokensOf(messages[k]) + TokensFrom(messages, k + 1)

\* The truncateMessagesToFit calls made, with what each returned.
TruncateCalls == {c \in budgetCall : c.op = "truncate" /\ budgetResult # {}}

Returned == CHOOSE r \in budgetResult : TRUE

\* The suffix of the messages after the first that starts at k goes with the
\* first message into the budget; the empty suffix (k past the end) always goes.
SuffixFits(messages, k, maxTokens) ==
  \/ k = Len(messages) + 1
  \/ TokensOf(messages[1]) + TokensFrom(messages, k) <= maxTokens

\* C14: over the budget, truncateMessagesToFit returns the first message
\* followed by the longest suffix of the others that goes into the budget
\* together with it, in the original order (the first message alone where no
\* other goes); of ten messages of which the first and the last three fit it
\* returns messages 0, 7, 8, 9.
C14_HeadAndLongestRecentSuffix ==
  \A c \in TruncateCalls :
    (c.messages # <<>> /\ TokensFrom(c.messages, 1) > c.maxTokens) =>
      /\ \E k \in 2..(Len(c.messages) + 1) :
           /\ SuffixFits(c.messages, k, c.maxTokens)
           /\ \A j \in 2..(k - 1) : ~SuffixFits(c.messages, j, c.maxTokens)
           /\ Returned = <<c.messages[1]>> \o SubSeq(c.messages, k, Len(c.messages))
      /\ (c.messages = TenMessages /\ c.maxTokens = 4) =>
           [i \in DOMAIN Returned |-> Returned[i].id] = <<0, 7, 8, 9>>

\* Ten messages, a budget for four: the first and the last three are kept.
C14_Witness ==
  \E c \in TruncateCalls :
    /\ c.messages = TenMessages
    /\ c.maxTokens = 4
    /\ Len(Returned) = 4

\* C15: when the estimated tokens of the conversation are at most the budget,
\* truncateMessagesToFit returns the list unchanged.
C15_FitsUnchanged ==
  \A c \in TruncateCalls :
    TokensFrom(c.messages, 1) <= c.maxTokens => Returned = c.messages

\* Three messages whose tokens are exactly the budget come back as they were.
C15_Witness ==
  \E c \in TruncateCalls :
    /\ Len(c.messages) = 3
    /\ TokensFrom(c.messages, 1) = c.maxTokens
    /\ Returned = c.messages

\* The calculateSafeMaxOutputTokens calls made, with what each returned.
CalculateCalls == {c \in budgetCall : c.op = "calculate" /\ budgetResult # {}}

\* The context window and the output limit in force: the configured values, or
\* 32768 and 2048 where none is configured.
ContextWindow == IF config.defaultMaxTokens = 0 THEN 32768 ELSE config.defaultMaxTokens

OutputLimit ==
  IF config.defaultMaxOutputTokens = 0 THEN 2048 ELSE config.defaultMaxOutputTokens

\* The input estimate inflated by a fifth, rounded up.
Conservative(tokens) == (6 * tokens + 4) \div 5

\* C16: calculateSafeMaxOutputTokens returns
\* max(64, min(output limit, context window - ceil(1.2 * (input + tools)) - 256));
\* the result is never below 64, and is 64 whenever the conservative input
\* estimate exceeds the context window.
C16_SafeOutputCeiling ==
  \A c \in CalculateCalls :
    LET conservative == Conservative(c.estimatedInputTokens + c.toolsOverhead)
        room == ContextWindow - conservative - 256
        least == IF OutputLimit <= room THEN OutputLimit ELSE room
    IN /\ Returned = (IF least >= 64 THEN least ELSE 64)
       /\ Returned >= 64
       /\ conservative > ContextWindow => Returned = 64

\* The input estimate alone is beyond the window: the ceiling is 64.
C16_Witness ==
  \E c \in CalculateCalls :
    /\ Conservative(c.estimatedInputTokens + c.toolsOverhead) > ContextWindow
    /\ Returned = 64

\* The requests built, with what each was sized with.
RequestCalls == {c \in budgetCall : c.op = "request" /\ budgetResult # {}}

\* C17 (as claimed): for every request, the estimated input tokens plus the
\* estimated tool-definition tokens plus max_tokens are within the context
\* window.
C17_RequestWithinContextWindow ==
  \A c \in RequestCalls :
    Returned.estimatedInputTokens + Returned.toolsOverhead + Returned.max_tokens
      <= ContextWindow

\* C17 (amended): where the model options set no max_tokens and the context
\* window has room for the conservative input estimate, the margin of 256 and
\* the least output of 64, input, tools and max_tokens together stay within the
\* window less the margin; where it has no such room max_tokens is 64 whatever
\* the input.
C17_WithinWindowWhenRoom ==
  \A c \in RequestCalls :
    LET conservative ==
          Conservative(Returned.estimatedInputTokens + Returned.toolsOverhead)
    IN c.maxTokensOption = {} =>
         IF conservative + 256 + 64 <= ContextWindow
         THEN Returned.estimatedInputTokens + Returned.toolsOverhead
                + Returned.max_tokens <= ContextWindow - 256
         ELSE Returned.max_tokens = 64

\* A conversation that was truncated and then fits with room for the output.
C17_Witness ==
  \E c \in RequestCalls :
    /\ c.maxTokensOption = {}
    /\ Len(Returned.messages) < Len(c.messages)
    /\ Conservative(Returned.estimatedInputTokens + Returned.toolsOverhead) + 256 + 64
         <= ContextWindow
    /\ Returned.estimatedInputTokens + Returned.toolsOverhead + Returned.max_tokens
         <= ContextWindow - 256

\* ------------------------------------------ claims on the tool schemas

\* The schemas request r declared: what buildToolsConfig registers for its tools.
DeclaredSchemas(r) == buildToolsConfig(requests[r].tools, <<>>)

\* The required properties of the tool a call names, as request r declared it.
RequiredOf(r, name) ==
  IF name \in DOMAIN DeclaredSchemas(r)
  THEN UNION {Range(required) :
                required \in UNION {sch.required : sch \in DeclaredSchemas(r)[name]}}
  ELSE {}

\* C12 (as claimed): for every reported tool call whose tool the request
\* declared with required properties, the reported arguments hold every
\* required property, and the properties of the repaired object keep their
\* values.
C12_RequiredPropertiesFilled ==
  \A r \in RequestIds :
    \A i \in DOMAIN requests[r].reported :
      LET call == requests[r].reported[i].call
          input == requests[r].reported[i].part.input
          repaired == tryRepairJson(call.arguments)
      IN RequiredOf(r, call.name) # {} =>
           /\ input.t = "object"
           /\ RequiredOf(r, call.name) \subseteq DOMAIN input.v
           /\ repaired.t = "object" =>
                \A k \in DOMAIN repaired.v : input.v[k] = repaired.v[k]

\* C18 (as claimed): the schema used to fill the arguments of a finished tool
\* call is the one its own request declared: every part a request reports is
\* what processToolCall gives with that request's schemas alone, and with none
\* where the request declared no tools.
C18_SchemasOfOwnRequest ==
  \A r \in RequestIds :
    \A i \in DOMAIN requests[r].reported :
      requests[r].reported[i].part =
        processToolCall(requests[r].reported[i].call, DeclaredSchemas(r))

\* ------------------------------------------------ claims on the SSE records

\* C21: when a request ends without cancellation and without error and its
\* stream brought no text and no finished tool call, the sink holds exactly one
\* part, the synthesized diagnostic text, and the request has returned.
C21_EmptyResponseDiagnosed ==
  (/\ spc = "done"
   /\ ~token
   /\ yielded = <<>>
   /\ \A i \in DOMAIN lines : lines[i].content = <<>>)
    => progress = <<TextPart(Diagnostic)>>

\* The stream brought a record that opened a call without name and arguments;
\* the drain passed it over and the diagnostic was reported.
C21_Witness ==
  /\ spc = "done"
  /\ ~token
  /\ yielded = <<>>
  /\ state.calls # <<>>
  /\ \E i \in DOMAIN lines : lines[i].yields
  /\ progress = <<TextPart(Diagnostic)>>

\* A line that carries no chunk: blank, the sentinel, without the data prefix,
\* or with a payload that is not JSON or holds neither a delta nor a message.
NoChunkLine(l) ==
  \/ Trim(l.text) = <<>>
  \/ Trim(l.text) = DoneLine
  \/ ~HasAt(Trim(l.text), 1, DataPrefix)
  \/ ~l.chunk

\* C22: a blank line, the sentinel data: [DONE], a line without the data prefix
\* and a line whose payload fails to parse produce no record, and every data
\* line with a chunk produces one, whatever came before it; while the token is
\* not raised the read loop goes on after a line without record, and nothing
\* is yielded or reported for it.
C22_SkippedLinesDoNotEndTheStream ==
  /\ [](\A i \in DOMAIN lines : lines[i].yields <=> ~NoChunkLine(lines[i]))
  /\ [][(nread' = nread + 1 /\ ~lines'[nread'].yields /\ ~token)
          => (spc' = "reading" /\ yielded' = yielded /\ progress' = progress)]_vars

\* A payload that is not JSON was skipped, and the data line after it gave its
\* record, which the consumer reported.
C22_Witness ==
  /\ Len(lines) = 2
  /\ lines[1].text = DataPrefix \o <<"{">>
  /\ ~lines[1].yields
  /\ lines[2].yields
  /\ lines[2].taken
  /\ progress # <<>>

Shown(part) ==
  IF part.kind = "text" THEN <<"text", part.text>> ELSE <<"tool", part.callId>>

NotDiagnostic(part) == part # TextPart(Diagnostic)

RECURSIVE RecordParts(_, _)
\* What the records from line i on put into the sink, the finished calls being
\* yielded[y], yielded[y + 1], ...: for each record the consumer took, its text
\* and then its finished calls; after the last line the calls of the drain.
RecordParts(i, y) ==
  IF i > Len(lines)
  THEN IF token THEN <<>>
       ELSE [k \in 1..(Len(yielded) - y + 1) |-> <<"tool", yielded[y + k - 1].id>>]
  ELSE LET l == lines[i]
           own == (IF l.content # <<>> THEN <<(<<"text", l.content>>)>> ELSE <<>>)
                    \o [k \in 1..l.finished |-> <<"tool", yielded[y + k - 1].id>>]
       IN (IF l.taken THEN own ELSE <<>>) \o RecordParts(i + 1, y + l.finished)

\* C24: the sink holds, in the order of the stream, for every record the
\* consumer took the record's text followed by the calls the record finished:
\* text is reported with its own record whatever calls are pending or finished,
\* and the calls a record finishes are reported with that record.
C24_TextWithItsRecord ==
  LET shown == SelectSeq(progress, NotDiagnostic)
  IN [i \in DOMAIN shown |-> Shown(shown[i])] = RecordParts(1, 1)

\* A record brought text and the finish reason of a pending call: the text and
\* then the call were reported.
C24_Witness ==
  /\ Len(lines) = 2
  /\ lines[1].finished = 0
  /\ lines[2].content # <<>>
  /\ lines[2].finished = 1
  /\ lines[2].taken
  /\ Len(progress) = 2
  /\ progress[1].kind = "text"
  /\ progress[2].kind = "tool"

\* C29 (as claimed): once the read loop has observed the cancellation (it
\* cancelled the reader), the generator yields nothing more: no call comes out
\* of the drain.
C29_NoDrainAfterCancel ==
  readerCancelled => \A p \in DOMAIN yielded : yielded[p].via # "drain"

\* C30 (as claimed): a request that ended because the consumer left its loop
\* on the raised token has cancelled the reader.
C30_ReaderCancelledWhenConsumerStops ==
  (spc = "done" /\ \E i \in DOMAIN lines : lines[i].yields /\ ~lines[i].taken)
    => readerCancelled

\* ------------------------------- claims on the model list and the credential

\* C25 (as claimed): after a fetch of the models succeeded, for the call that
\* read the time t when it started, every call that starts later at a time t'
\* with t' - t below a positive modelCacheTtlMs, with no configuration change
\* in between, returns without an HTTP request.
C25_CachedWithinTtl ==
  \A i \in DOMAIN infoCalls :
    \A j \in DOMAIN infoCalls :
      LET d == infoCalls[i]
          c == infoCalls[j]
      IN (/\ d.pc = "done"
          /\ d.http
          /\ d.ok
          /\ d.ended < c.started
          /\ \A x \in changedAt : ~(d.started < x /\ x < c.started)
          /\ c.ttl > 0
          /\ c.now - d.now < c.ttl)
           => ~c.http

\* C26 (as claimed): a call that returns from the cache after a configuration
\* change returns a list whose fetch started after that change.
C26_NoListFromBeforeTheChange ==
  \A j \in DOMAIN infoCalls :
    LET c == infoCalls[j]
    IN (c.pc = "done" /\ ~c.http) =>
         \A list \in c.returned :
           \A x \in changedAt : x < c.started => list.fetch > x

\* C27 (as claimed): with a key stored every HTTP request carries an
\* Authorization header that starts with Bearer and an x-api-key header with
\* the key; with none stored it carries neither.
C27_CredentialOnEveryRequest ==
  \A i \in DOMAIN sent :
    IF secret # <<>>
    THEN /\ sent[i].xApiKey = {secret}
         /\ sent[i].Authorization # {}
         /\ \A a \in sent[i].Authorization : HasAt(a, 1, <<"B", "e", "a", "r", "e", "r", " ">>)
    ELSE sent[i].xApiKey = {} /\ sent[i].Authorization = {}

\* The line holds the text somewhere in it.
Contains(line, text) == \E i \in 1..Len(line) : HasAt(line, i, text)

\* C28 (as claimed): no line of the log holds the stored key.
C28_KeyNeverLogged ==
  secret # <<>> => \A line \in log : ~Contains(line, secret)

\* C31: whenever a record carries a finish reason of tool_calls or
\* function_call, no slot is left pending once the record has been processed,
\* whatever else the record contains.
C31_FinishReasonFinalizesEverySlot ==
  \A i \in DOMAIN lines : lines[i].finish => lines[i].pending = {}

\* C32, as stated: after the stream ended without cancellation, no slot is left
\* pending, a slot that received only an identifier included.
C32_DrainEmitsEveryPendingSlot ==
  (spc = "done" /\ ~token) => PendingSlots(state) = {}

\* C32, amended: after the stream ended without cancellation, every slot that
\* received a name or argument text has been emitted exactly once, and a slot
\* that received only an identifier is not emitted by the drain.
C32_DrainEmitsEveryNamedSlot ==
  (spc = "done" /\ ~token) =>
    \A p \in DOMAIN state.calls :
      LET e == state.calls[p]
          emitted == {q \in DOMAIN yielded : yielded[q].index = e.index}
      IN IF e.name # "" \/ e.arguments # <<>>
         THEN Cardinality(emitted) = 1
         ELSE \A q \in emitted : yielded[q].via # "drain"

C32_Witness ==
  /\ spc = "done"
  /\ ~token
  /\ \E q \in DOMAIN yielded : yielded[q].via = "drain"
  /\ \E p \in DOMAIN state.calls :
       /\ state.calls[p].name = ""
       /\ state.calls[p].arguments = <<>>
       /\ state.calls[p].index \notin state.finalized

\* C33: once a slot holds a non-empty identifier or a non-empty name, no later
\* fragment changes it.
C33_IdentifierAndNameKept ==
  [][\A p \in DOMAIN state.calls :
       p \in DOMAIN state'.calls =>
         /\ state.calls[p].id # "" => state'.calls[p].id = state.calls[p].id
         /\ state.calls[p].name # "" => state'.calls[p].name = state.calls[p].name]_vars

\* C34: a fragment that omits its index is filed under an index that no
\* earlier fragment of the response was filed under.
C34_IndexlessFragmentGetsUnusedIndex ==
  \A k \in DOMAIN state.arrivals :
    ~state.arrivals[k].explicit =>
      \A j \in 1..(k - 1) : state.arrivals[j].index # state.arrivals[k].index

ToolResultsPaired(messages) ==
  \A i \in DOMAIN messages :
    messages[i].tool_call_id # {} =>
      \E j \in 1..(i - 1) :
        /\ messages[j].role = "assistant"
        /\ messages[i].tool_call_id \subseteq messages[j].tool_calls

\* C39: in the message list of the request that is sent, every tool-result
\* message names a call of an earlier assistant message of that list, where
\* the conversation before truncation did.
C39_ToolResultsKeepTheirCalls ==
  \A c \in budgetCall :
    (c.op = "request" /\ budgetResult # {} /\ ToolResultsPaired(c.messages)) =>
      \A r \in budgetResult : ToolResultsPaired(r.messages)

RECURSIVE Flatten(_)
\* The chunks of a body put back together.
Flatten(chunks) == IF chunks = <<>> THEN <<>> ELSE Head(chunks) \o Flatten(Tail(chunks))

\* The positions of the line feeds of a text.
LineFeeds(text) == {i \in DOMAIN text : text[i] = "\n"}

\* The lines of a text that end in a line feed, in order, without it.
CompleteLines(text) ==
  [k \in 1..Cardinality(LineFeeds(text)) |->
     LET end == CHOOSE i \in LineFeeds(text) :
                  Cardinality({j \in LineFeeds(text) : j <= i}) = k
         before == {j \in LineFeeds(text) : j < end}
         start == IF before = {} THEN 1
                  ELSE 1 + CHOOSE j \in before : \A x \in before : x <= j
     IN SubSeq(text, start, end - 1)]

\* What follows the last line feed of a text.
LastPiece(text) ==
  IF LineFeeds(text) = {} THEN text
  ELSE SubSeq(text, 1 + (CHOOSE j \in LineFeeds(text) : \A x \in LineFeeds(text) : x <= j),
              Len(text))

\* C36: however the body is cut into chunks, the lines processed so far are
\* the lines of the bytes delivered so far that end in a line feed, in order,
\* and the buffer holds the partial line after the last line feed.
C36_ChunkingIndependent ==
  LET text == decode(Flatten(chunksRead)).text
  IN /\ processed = CompleteLines(text)
     /\ buffer = LastPiece(text)

C36_Witness ==
  /\ cpc = "done"
  /\ Len(chunksRead) >= 2
  /\ processed # <<>>
  /\ \A i \in DOMAIN chunksRead[1] : chunksRead[1][i] # "\n"

\* C37: when the read loop has ended, the text after the last line feed of the
\* body, where there is any, has been processed as the last line.
C37_FinalLineProcessed ==
  cpc = "done" =>
    LET text == decode(Flatten(chunksRead)).text
    IN LastPiece(text) # <<>> =>
         /\ processed # <<>>
         /\ processed[Len(processed)] = LastPiece(text)
         /\ Len(processed) = Cardinality(LineFeeds(text)) + 1

\* C38: the backoff delay is at most maxDelayMs, lies between
\* min(baseDelayMs * 2^n, maxDelayMs) and min(1.3 * baseDelayMs * 2^n,
\* maxDelayMs), and without jitter does not decrease from n to n + 1.
C38_BackoffBounds ==
  /\ \A c \in backoffCall, d \in backoffDelay :
       /\ d <= retryConfig.maxDelayMs * Scale
       /\ d >= Min(retryConfig.baseDelayMs * (2 ^ c.attempt), retryConfig.maxDelayMs) * Scale
       /\ 10 * d <= Min(13 * retryConfig.baseDelayMs * (2 ^ c.attempt),
                        10 * retryConfig.maxDelayMs) * Scale
  /\ backoffDelay # {} =>
       \A n \in 0..MaxAttempt :
         calculateBackoffDelay(retryConfig, n, 0)
           <= calculateBackoffDelay(retryConfig, n + 1, 0)

C38_Witness ==
  \E c \in backoffCall, d \in backoffDelay :
    /\ c.attempt > 0
    /\ c.random > 0
    /\ d = retryConfig.maxDelayMs * Scale
    /\ retryConfig.baseDelayMs * (2 ^ c.attempt) < retryConfig.maxDelayMs

\* The calls whose fetch failed.
FailedCalls ==
  {i \in DOMAIN infoCalls :
     infoCalls[i].pc = "done" /\ infoCalls[i].http /\ ~infoCalls[i].ok}

\* C40: a call whose fetch failed returned the empty list; the step in which
\* it failed left the cached list and its timestamp as they were; and a call
\* started after the failure fetches again, unless another call stored a list
\* since the failed call started.
C40_FailureIsNotCached ==
  /\ [](\A i \in FailedCalls :
          /\ infoCalls[i].returned # {}
          /\ \A l \in infoCalls[i].returned : l.ids = <<>>
          /\ \A j \in DOMAIN infoCalls :
               (/\ infoCalls[j].started > infoCalls[i].ended
                /\ \A k \in DOMAIN infoCalls :
                     ~(/\ infoCalls[k].pc = "done"
                       /\ infoCalls[k].http
                       /\ infoCalls[k].ok
                       /\ infoCalls[i].started < infoCalls[k].ended
                       /\ infoCalls[k].ended < infoCalls[j].started))
                 => infoCalls[j].http)
  /\ [][\A i \in DOMAIN infoCalls :
         (infoCalls[i].pc = "fetching" /\ i \in FailedCalls') =>
           /\ cachedModels' = cachedModels
           /\ modelCacheTimestamp' = modelCacheTimestamp]_vars

C40_Witness ==
  \E i \in FailedCalls :
    /\ cachedModels # {}
    /\ \E j \in DOMAIN infoCalls :
         infoCalls[j].started > infoCalls[i].ended /\ infoCalls[j].http

====
